---- MODULE Spec2Model ----
(***************************************************************************)
(* Circuit-graph validation and correction engine of AI-EDA:               *)
(*   backend/app/validation/engine.py      the seven checks, the validator *)
(*   backend/app/validation/correction.py  the fixers, correct_circuit     *)
(*   backend/app/services/pipeline.py      run_pipeline's correction loop  *)
(*   backend/app/services/circuit_service.py  CircuitService               *)
(*                                                                         *)
(* Voltages are integers in tenths of a volt (3.3 V is 33), currents are   *)
(* integers in mA.  Strings are TLA+ strings; upper(), lower(), the `in`   *)
(* substring test and startswith() are computed character by character.   *)
(* A ValidationError is modelled by its code, severity and node_ids; its   *)
(* message and suggestion are display text derived from those and from the *)
(* graph, and no code in the engine reads them.                            *)
(***************************************************************************)
EXTENDS Integers, Sequences, FiniteSets, TLC

VARIABLES
    given,            \* the graph the entry point was given, as it was then
    heap,             \* the CircuitGraph objects alive, by reference (index)
    circuit,          \* reference of the working graph (circuit / graph local)
    validation,       \* the last ValidationResult, or NoResult
    check_fns,        \* the checks argument of the last validate_circuit call
    all_corrections,  \* run_pipeline's all_corrections
    iterations,       \* run_pipeline's iterations
    i,                \* the loop variable of the for over range(MAX_CORRECTION_ITERATIONS)
    pc,               \* position in the entry point being run
    entry,            \* which entry point runs
    pcb_constraints,  \* PipelineResult.pcb_constraints / the pcb local
    bom,              \* PipelineResult.bom / the bom local
    pipeline_status,  \* PipelineResult.pipeline_status
    row,              \* the persisted Circuit row CircuitService works on
    trace,            \* history: the calls made so far, in order
    request,          \* the arguments of the _llm_call_with_retry call
    attempt,          \* _llm_call_with_retry's loop variable
    raw_output,       \* _llm_call_with_retry's raw_output
    last_error,       \* _llm_call_with_retry's last_error
    outcome,          \* what _llm_call_with_retry returned or raised
    room,             \* the Room of the sync server: peers, state, version
    handlers,         \* the sync_websocket coroutine of each connection
    inbox             \* the messages sent to each connection, in order

\* the locals of _llm_call_with_retry
retry_vars == <<request, attempt, raw_output, last_error, outcome>>

\* the sync server and its connections
sync_vars == <<room, handlers, inbox>>

vars == <<given, heap, circuit, validation, check_fns, all_corrections, iterations, i,
          pc, entry, pcb_constraints, bom, pipeline_status, row, trace,
          request, attempt, raw_output, last_error, outcome, room, handlers, inbox>>

(***************************************************************************)
(* Strings                                                                 *)
(***************************************************************************)
LowerLetters == "abcdefghijklmnopqrstuvwxyz"

UpperLetters == "ABCDEFGHIJKLMNOPQRSTUVWXYZ"

MapChar(c, from, to) ==
    IF \E k \in 1..Len(from) : SubSeq(from, k, k) = c
    THEN LET k == CHOOSE k \in 1..Len(from) : SubSeq(from, k, k) = c
         IN  SubSeq(to, k, k)
    ELSE c

RECURSIVE MapString(_, _, _)
MapString(s, from, to) ==
    IF Len(s) = 0 THEN ""
    ELSE MapChar(SubSeq(s, 1, 1), from, to) \o MapString(SubSeq(s, 2, Len(s)), from, to)

\* The strings the graphs below are written with; upper() and lower() of
\* these are computed once and looked up afterwards.
KnownStrings ==
    {"", "GND", "gnd", "VCC", "vcc", "VOUT", "VIN", "SDA", "SCL", "P", "P1", "P2",
     "IN", "GPIO0", "AGND", "3V3", "SHORT", "DRV", "I2C_SDA", "I2C_SCL",
     "decoupling capacitor", "Decoupling cap", "I2C pull-up (SDA)", "I2C pull-up (SCL)",
     "scl", "INT", "GPIO1", "RTN", "PU", "i2c_sda", "I2C_INT", "Pullup", "TVS diode",
     "battery connector"}

UpperOfKnown == [s \in KnownStrings |-> MapString(s, LowerLetters, UpperLetters)]

LowerOfKnown == [s \in KnownStrings |-> MapString(s, UpperLetters, LowerLetters)]

\* str.upper()
Upper(s) ==
    IF s \in KnownStrings THEN UpperOfKnown[s]
    ELSE MapString(s, LowerLetters, UpperLetters)

\* str.lower()
Lower(s) ==
    IF s \in KnownStrings THEN LowerOfKnown[s]
    ELSE MapString(s, UpperLetters, LowerLetters)

\* sub in s
Contains(s, sub) ==
    \E k \in 1..(Len(s) - Len(sub) + 1) : SubSeq(s, k, k + Len(sub) - 1) = sub

\* s.startswith(prefix)
StartsWith(s, prefix) ==
    Len(s) >= Len(prefix) /\ SubSeq(s, 1, Len(prefix)) = prefix

(***************************************************************************)
(* Sequences                                                               *)
(***************************************************************************)
RECURSIVE Flatten(_)
Flatten(ss) == IF Len(ss) = 0 THEN <<>> ELSE Head(ss) \o Flatten(Tail(ss))

\* [f(x) for x in s]
MapSeq(s, f(_)) == [k \in 1..Len(s) |-> f(s[k])]

\* The elements of the sequence cat at the positions in the set idx, in order.
RECURSIVE Pick(_, _, _)
Pick(cat, idx, k) ==
    IF k > Len(cat) THEN <<>>
    ELSE (IF k \in idx THEN <<cat[k]>> ELSE <<>>) \o Pick(cat, idx, k + 1)

Range(s) == {s[k] : k \in 1..Len(s)}

\* dict.get(key, default)
Get(d, key, default) == IF key \in DOMAIN d THEN d[key] ELSE default

(***************************************************************************)
(* schemas/circuit.py, schemas/validation.py                               *)
(***************************************************************************)
CircuitNode(id, type, part_number, properties, pins) ==
    [id |-> id, type |-> type, part_number |-> part_number,
     properties |-> properties, pins |-> pins]

CircuitEdge(id, source_node, source_pin, target_node, target_pin, net_name, signal_type) ==
    [id |-> id, source_node |-> source_node, source_pin |-> source_pin,
     target_node |-> target_node, target_pin |-> target_pin,
     net_name |-> net_name, signal_type |-> signal_type]

PowerRail(name, voltage, source_node, consumers) ==
    [name |-> name, voltage |-> voltage, source_node |-> source_node,
     consumers |-> consumers]

CircuitGraph(nodes, edges, power_rails, ground_net, power_source) ==
    [nodes |-> nodes, edges |-> edges, power_rails |-> power_rails,
     ground_net |-> ground_net, power_source |-> power_source]

ValidationError(code, severity, node_ids) ==
    [code |-> code, severity |-> severity, node_ids |-> node_ids]

ValidationResult(status, errors, warnings, checks_passed, checks_total) ==
    [status |-> status, errors |-> errors, warnings |-> warnings,
     checks_passed |-> checks_passed, checks_total |-> checks_total]

\* The checks argument left out: validate_circuit(graph) has checks = None.
None == <<"None">>

\* No ValidationResult yet.
NoResult == ValidationResult("none", <<>>, <<>>, 0, 0)

(***************************************************************************)
(* validation/engine.py: helpers                                           *)
(***************************************************************************)
\* {n.id: n for n in graph.nodes}: of two nodes with one id the later wins.
node_map(graph) ==
    [id \in {n.id : n \in Range(graph.nodes)} |->
        graph.nodes[CHOOSE k \in 1..Len(graph.nodes) :
            /\ graph.nodes[k].id = id
            /\ \A m \in (k + 1)..Len(graph.nodes) : graph.nodes[m].id # id]]

IC_TYPES == {"mcu", "sensor", "regulator"}

GPIO_MAX_CURRENT_MA == 20

OPERATING_VOLTAGE_MAX_DEFAULT == 55

(***************************************************************************)
(* Check 1: voltage compatibility                                          *)
(***************************************************************************)
\* check_voltage_compatibility with the range taken as exclusive
check_voltage_compatibility_Exclusive(graph) ==
    LET nodes == node_map(graph)
        ForConsumer(rail, consumer_id) ==
            IF consumer_id \notin DOMAIN nodes
            THEN <<ValidationError("E_UNKNOWN_CONSUMER", "error", <<consumer_id>>)>>
            ELSE LET node  == nodes[consumer_id]
                     v_min == Get(node.properties, "operating_voltage_min", 0)
                     v_max == Get(node.properties, "operating_voltage_max",
                                  OPERATING_VOLTAGE_MAX_DEFAULT)
                 IN  IF ~(v_min < rail.voltage /\ rail.voltage < v_max)
                     THEN <<ValidationError("E_VOLTAGE_MISMATCH", "error", <<node.id>>)>>
                     ELSE <<>>
        ForRail(rail) ==
            Flatten([c \in 1..Len(rail.consumers) |-> ForConsumer(rail, rail.consumers[c])])
    IN  Flatten([r \in 1..Len(graph.power_rails) |-> ForRail(graph.power_rails[r])])

check_voltage_compatibility(graph) ==
    LET nodes == node_map(graph)
        ForConsumer(rail, consumer_id) ==
            IF consumer_id \notin DOMAIN nodes
            THEN <<ValidationError("E_UNKNOWN_CONSUMER", "error", <<consumer_id>>)>>
            ELSE LET node  == nodes[consumer_id]
                     v_min == Get(node.properties, "operating_voltage_min", 0)
                     v_max == Get(node.properties, "operating_voltage_max",
                                  OPERATING_VOLTAGE_MAX_DEFAULT)
                 IN  IF ~(v_min <= rail.voltage /\ rail.voltage <= v_max)
                     THEN <<ValidationError("E_VOLTAGE_MISMATCH", "error", <<node.id>>)>>
                     ELSE <<>>
        ForRail(rail) ==
            Flatten([c \in 1..Len(rail.consumers) |-> ForConsumer(rail, rail.consumers[c])])
    IN  Flatten([r \in 1..Len(graph.power_rails) |-> ForRail(graph.power_rails[r])])

(***************************************************************************)
(* Check 2: ground continuity                                              *)
(***************************************************************************)
\* check_ground_continuity with only the source node of a ground edge grounded
check_ground_continuity_SourceOnly(graph) ==
    LET gnd == graph.ground_net
        groundEdges == {e \in Range(graph.edges) :
                            e.net_name = gnd \/ e.signal_type = "ground"}
        grounded == {e.source_node : e \in groundEdges}
        ForNode(node) ==
            IF node.type \in IC_TYPES /\ node.id \notin grounded
            THEN <<ValidationError("E_MISSING_GROUND", "error", <<node.id>>)>>
            ELSE <<>>
    IN  Flatten([n \in 1..Len(graph.nodes) |-> ForNode(graph.nodes[n])])

check_ground_continuity(graph) ==
    LET gnd == graph.ground_net
        groundEdges == {e \in Range(graph.edges) :
                            e.net_name = gnd \/ e.signal_type = "ground"}
        grounded == {e.source_node : e \in groundEdges}
                        \cup {e.target_node : e \in groundEdges}
        ForNode(node) ==
            IF node.type \in IC_TYPES /\ node.id \notin grounded
            THEN <<ValidationError("E_MISSING_GROUND", "error", <<node.id>>)>>
            ELSE <<>>
    IN  Flatten([n \in 1..Len(graph.nodes) |-> ForNode(graph.nodes[n])])

(***************************************************************************)
(* Check 3: short circuits                                                 *)
(***************************************************************************)
\* check_short_circuits looking for a supply pin at the source and a ground
\* pin at the target only
check_short_circuits_OneWay(graph) ==
    LET gnd_net == graph.ground_net
        power_output_pins == {"VCC", "VOUT"}
        ground_pins == {"GND"}
        ForEdge(edge) ==
            IF edge.signal_type = "ground" \/ edge.net_name = gnd_net
            THEN <<>>
            ELSE LET src_pin  == Upper(edge.source_pin)
                     tgt_pin  == Upper(edge.target_pin)
                     is_short == src_pin \in power_output_pins /\ tgt_pin \in ground_pins
                 IN  IF is_short
                     THEN <<ValidationError("E_SHORT_CIRCUIT", "error",
                                            <<edge.source_node, edge.target_node>>)>>
                     ELSE <<>>
    IN  Flatten([e \in 1..Len(graph.edges) |-> ForEdge(graph.edges[e])])

check_short_circuits(graph) ==
    LET gnd_net == graph.ground_net
        power_output_pins == {"VCC", "VOUT"}
        ground_pins == {"GND"}
        ForEdge(edge) ==
            IF edge.signal_type = "ground" \/ edge.net_name = gnd_net
            THEN <<>>
            ELSE LET src_pin  == Upper(edge.source_pin)
                     tgt_pin  == Upper(edge.target_pin)
                     is_short ==
                         \/ (src_pin \in power_output_pins /\ tgt_pin \in ground_pins)
                         \/ (tgt_pin \in power_output_pins /\ src_pin \in ground_pins)
                 IN  IF is_short
                     THEN <<ValidationError("E_SHORT_CIRCUIT", "error",
                                            <<edge.source_node, edge.target_node>>)>>
                     ELSE <<>>
    IN  Flatten([e \in 1..Len(graph.edges) |-> ForEdge(graph.edges[e])])

(***************************************************************************)
(* Check 4: GPIO overcurrent                                               *)
(***************************************************************************)
\* check_gpio_overcurrent with a draw equal to the limit counted as an error
check_gpio_overcurrent_AtLeast(graph) ==
    LET nodes == node_map(graph)
        ForEdge(node, max_ma, edge) ==
            IF edge.source_node # node.id THEN <<>>
            ELSE IF edge.signal_type # "signal" THEN <<>>
            ELSE IF edge.target_node \notin DOMAIN nodes THEN <<>>
            ELSE LET target  == nodes[edge.target_node]
                     draw_ma == Get(target.properties, "current_draw_mA", 0)
                 IN  (IF target.type = "actuator"
                      THEN <<ValidationError("W_GPIO_OVERCURRENT_RISK", "warning",
                                             <<node.id, target.id>>)>>
                      ELSE <<>>)
                     \o
                     (IF draw_ma >= max_ma
                      THEN <<ValidationError("E_GPIO_OVERCURRENT", "error",
                                             <<node.id, target.id>>)>>
                      ELSE <<>>)
        ForNode(node) ==
            IF node.type # "mcu" THEN <<>>
            ELSE LET max_ma == Get(node.properties, "gpio_max_current_mA",
                                   GPIO_MAX_CURRENT_MA)
                 IN  Flatten([e \in 1..Len(graph.edges) |->
                                  ForEdge(node, max_ma, graph.edges[e])])
    IN  Flatten([n \in 1..Len(graph.nodes) |-> ForNode(graph.nodes[n])])

check_gpio_overcurrent(graph) ==
    LET nodes == node_map(graph)
        ForEdge(node, max_ma, edge) ==
            IF edge.source_node # node.id THEN <<>>
            ELSE IF edge.signal_type # "signal" THEN <<>>
            ELSE IF edge.target_node \notin DOMAIN nodes THEN <<>>
            ELSE LET target  == nodes[edge.target_node]
                     draw_ma == Get(target.properties, "current_draw_mA", 0)
                 IN  (IF target.type = "actuator"
                      THEN <<ValidationError("W_GPIO_OVERCURRENT_RISK", "warning",
                                             <<node.id, target.id>>)>>
                      ELSE <<>>)
                     \o
                     (IF draw_ma > max_ma
                      THEN <<ValidationError("E_GPIO_OVERCURRENT", "error",
                                             <<node.id, target.id>>)>>
                      ELSE <<>>)
        ForNode(node) ==
            IF node.type # "mcu" THEN <<>>
            ELSE LET max_ma == Get(node.properties, "gpio_max_current_mA",
                                   GPIO_MAX_CURRENT_MA)
                 IN  Flatten([e \in 1..Len(graph.edges) |->
                                  ForEdge(node, max_ma, graph.edges[e])])
    IN  Flatten([n \in 1..Len(graph.nodes) |-> ForNode(graph.nodes[n])])

(***************************************************************************)
(* Check 5: regulator dropout                                              *)
(***************************************************************************)
\* check_regulator_dropout with the Vin_min test in an elif of the dropout test
check_regulator_dropout_Elif(graph) ==
    LET source_v == Get(graph.power_source, "voltage", 0)
        ForNode(node) ==
            IF node.type # "regulator" THEN <<>>
            ELSE LET vout    == Get(node.properties, "vout", 0)
                     dropout == Get(node.properties, "dropout_v", 0)
                     vin_min == Get(node.properties, "vin_min", 0)
                     min_required == vout + dropout
                 IN  IF source_v > 0 /\ source_v < min_required
                     THEN <<ValidationError("E_DROPOUT_VIOLATION", "error", <<node.id>>)>>
                     ELSE IF source_v > 0 /\ vin_min > 0 /\ source_v < vin_min
                     THEN <<ValidationError("E_VIN_BELOW_MIN", "error", <<node.id>>)>>
                     ELSE <<>>
    IN  Flatten([n \in 1..Len(graph.nodes) |-> ForNode(graph.nodes[n])])

check_regulator_dropout(graph) ==
    LET source_v == Get(graph.power_source, "voltage", 0)
        ForNode(node) ==
            IF node.type # "regulator" THEN <<>>
            ELSE LET vout    == Get(node.properties, "vout", 0)
                     dropout == Get(node.properties, "dropout_v", 0)
                     vin_min == Get(node.properties, "vin_min", 0)
                     min_required == vout + dropout
                 IN  (IF source_v > 0 /\ source_v < min_required
                      THEN <<ValidationError("E_DROPOUT_VIOLATION", "error", <<node.id>>)>>
                      ELSE <<>>)
                     \o
                     (IF source_v > 0 /\ vin_min > 0 /\ source_v < vin_min
                      THEN <<ValidationError("E_VIN_BELOW_MIN", "error", <<node.id>>)>>
                      ELSE <<>>)
    IN  Flatten([n \in 1..Len(graph.nodes) |-> ForNode(graph.nodes[n])])

(***************************************************************************)
(* Check 6: decoupling capacitors                                          *)
(***************************************************************************)
\* check_decoupling_caps looking at global presence: any wired decoupling
\* capacitor covers every IC
check_decoupling_caps_Global(graph) ==
    LET IsCap(node) ==
            /\ node.type = "passive"
            /\ Contains(Lower(Get(node.properties, "purpose", "")), "decoupling")
        wired == \E node \in Range(graph.nodes) : \E edge \in Range(graph.edges) :
                    /\ IsCap(node)
                    /\ edge.source_node = node.id \/ edge.target_node = node.id
        uncovered ==
            Flatten([n \in 1..Len(graph.nodes) |->
                IF graph.nodes[n].type \in IC_TYPES /\ ~wired
                THEN <<graph.nodes[n].id>> ELSE <<>>])
    IN  IF Len(uncovered) > 0
        THEN <<ValidationError("W_MISSING_DECOUPLING", "warning", uncovered)>>
        ELSE <<>>

check_decoupling_caps(graph) ==
    LET nodes == node_map(graph)
        IsCap(node) ==
            /\ node.type = "passive"
            /\ Contains(Lower(Get(node.properties, "purpose", "")), "decoupling")
        \* the ids the edge adds to the covered set of the capacitor `node`
        Peer(node, edge) ==
            LET peer_id == IF edge.source_node = node.id THEN edge.target_node
                           ELSE edge.source_node
            IN  IF edge.source_node # node.id /\ edge.target_node # node.id THEN {}
                ELSE IF peer_id \notin DOMAIN nodes THEN {}
                ELSE IF nodes[peer_id].type \in IC_TYPES THEN {nodes[peer_id].id}
                ELSE {}
        covered(node) == UNION {Peer(node, edge) : edge \in Range(graph.edges)}
        cap_coverage ==
            [id \in {n.id : n \in {m \in Range(graph.nodes) : IsCap(m)}} |->
                covered(CHOOSE n \in Range(graph.nodes) : IsCap(n) /\ n.id = id)]
        all_covered == UNION {cap_coverage[id] : id \in DOMAIN cap_coverage}
        uncovered ==
            Flatten([n \in 1..Len(graph.nodes) |->
                IF graph.nodes[n].type \in IC_TYPES /\ graph.nodes[n].id \notin all_covered
                THEN <<graph.nodes[n].id>> ELSE <<>>])
    IN  IF Len(uncovered) > 0
        THEN <<ValidationError("W_MISSING_DECOUPLING", "warning", uncovered)>>
        ELSE <<>>

(***************************************************************************)
(* Check 7: pull-up resistors on I2C                                       *)
(***************************************************************************)
\* check_pull_up_resistors with one flag for the bus: a pull-up on either line
\* counts for both
check_pull_up_resistors_AnyLine(graph) ==
    LET i2c_edges ==
            SelectSeq(graph.edges, LAMBDA e :
                \/ StartsWith(Upper(e.net_name), "I2C")
                \/ Upper(e.source_pin) \in {"SDA", "SCL"}
                \/ Upper(e.target_pin) \in {"SDA", "SCL"})
        purpose(node) == Lower(Get(node.properties, "purpose", ""))
        IsPullup(node) ==
            /\ node.type = "passive"
            /\ (Contains(purpose(node), "pull-up") \/ Contains(purpose(node), "pullup"))
        connected_pins(node) ==
            {Upper(e.target_pin) : e \in {d \in Range(graph.edges) : d.source_node = node.id}}
            \cup
            {Upper(e.source_pin) : e \in {d \in Range(graph.edges) :
                                            d.source_node # node.id /\ d.target_node = node.id}}
        has_pullup ==
            \E node \in Range(graph.nodes) :
                /\ IsPullup(node)
                /\ \/ "SDA" \in connected_pins(node) \/ Contains(purpose(node), "sda")
                   \/ "SCL" \in connected_pins(node) \/ Contains(purpose(node), "scl")
    IN  IF Len(i2c_edges) = 0 \/ has_pullup THEN <<>>
        ELSE << ValidationError("W_MISSING_I2C_PULLUP_SDA", "warning", <<>>),
                ValidationError("W_MISSING_I2C_PULLUP_SCL", "warning", <<>>) >>

check_pull_up_resistors(graph) ==
    LET i2c_edges ==
            SelectSeq(graph.edges, LAMBDA e :
                \/ StartsWith(Upper(e.net_name), "I2C")
                \/ Upper(e.source_pin) \in {"SDA", "SCL"}
                \/ Upper(e.target_pin) \in {"SDA", "SCL"})
        purpose(node) == Lower(Get(node.properties, "purpose", ""))
        IsPullup(node) ==
            /\ node.type = "passive"
            /\ (Contains(purpose(node), "pull-up") \/ Contains(purpose(node), "pullup"))
        connected_pins(node) ==
            {Upper(e.target_pin) : e \in {d \in Range(graph.edges) : d.source_node = node.id}}
            \cup
            {Upper(e.source_pin) : e \in {d \in Range(graph.edges) :
                                            d.source_node # node.id /\ d.target_node = node.id}}
        has_sda_pullup ==
            \E node \in Range(graph.nodes) :
                /\ IsPullup(node)
                /\ ("SDA" \in connected_pins(node) \/ Contains(purpose(node), "sda"))
        has_scl_pullup ==
            \E node \in Range(graph.nodes) :
                /\ IsPullup(node)
                /\ ("SCL" \in connected_pins(node) \/ Contains(purpose(node), "scl"))
    IN  IF Len(i2c_edges) = 0 THEN <<>>
        ELSE (IF ~has_sda_pullup
              THEN <<ValidationError("W_MISSING_I2C_PULLUP_SDA", "warning", <<>>)>>
              ELSE <<>>)
             \o
             (IF ~has_scl_pullup
              THEN <<ValidationError("W_MISSING_I2C_PULLUP_SCL", "warning", <<>>)>>
              ELSE <<>>)

(***************************************************************************)
(* Main validator                                                          *)
(***************************************************************************)
\* the registry with the ground check ahead of the voltage check
ALL_CHECKS_GroundFirst ==
    << "check_ground_continuity", "check_voltage_compatibility",
       "check_short_circuits", "check_gpio_overcurrent",
       "check_regulator_dropout", "check_decoupling_caps",
       "check_pull_up_resistors" >>

ALL_CHECKS ==
    << "check_voltage_compatibility", "check_ground_continuity",
       "check_short_circuits", "check_gpio_overcurrent",
       "check_regulator_dropout", "check_decoupling_caps",
       "check_pull_up_resistors" >>

\* check_fn(graph): the call of one registered check by name
RunCheck(check_fn, graph) ==
    CASE check_fn = "check_voltage_compatibility" -> check_voltage_compatibility(graph)
      [] check_fn = "check_ground_continuity"     -> check_ground_continuity(graph)
      [] check_fn = "check_short_circuits"        -> check_short_circuits(graph)
      [] check_fn = "check_gpio_overcurrent"      -> check_gpio_overcurrent(graph)
      [] check_fn = "check_regulator_dropout"     -> check_regulator_dropout(graph)
      [] check_fn = "check_decoupling_caps"       -> check_decoupling_caps(graph)
      [] check_fn = "check_pull_up_resistors"     -> check_pull_up_resistors(graph)

\* CheckStep with a check passing only when it emitted no issue at all
CheckStep_WarningsFail(acc, issues) ==
    LET errs  == SelectSeq(issues, LAMBDA e : e.severity = "error")
        warns == SelectSeq(issues, LAMBDA e : e.severity # "error")
    IN  [all_errors    |-> acc.all_errors \o errs,
         all_warnings  |-> acc.all_warnings \o warns,
         checks_passed |-> IF Len(issues) = 0 THEN acc.checks_passed + 1
                           ELSE acc.checks_passed]

\* CheckStep with the issues of a check put in front of the earlier ones
CheckStep_Prepend(acc, issues) ==
    LET errs  == SelectSeq(issues, LAMBDA e : e.severity = "error")
        warns == SelectSeq(issues, LAMBDA e : e.severity # "error")
    IN  [all_errors    |-> errs \o acc.all_errors,
         all_warnings  |-> warns \o acc.all_warnings,
         checks_passed |-> IF Len(errs) = 0 THEN acc.checks_passed + 1
                           ELSE acc.checks_passed]

\* the body of the for loop of validate_circuit after issues = check_fn(graph):
\* acc holds all_errors, all_warnings and checks_passed
CheckStep(acc, issues) ==
    LET errs  == SelectSeq(issues, LAMBDA e : e.severity = "error")
        warns == SelectSeq(issues, LAMBDA e : e.severity # "error")
    IN  [all_errors    |-> acc.all_errors \o errs,
         all_warnings  |-> acc.all_warnings \o warns,
         checks_passed |-> IF Len(errs) = 0 THEN acc.checks_passed + 1
                           ELSE acc.checks_passed]

\* the for loop of validate_circuit from check number k on
RECURSIVE ValidateLoop(_, _, _, _)
ValidateLoop(graph, fns, k, acc) ==
    IF k > Len(fns) THEN acc
    ELSE ValidateLoop(graph, fns, k + 1, CheckStep(acc, RunCheck(fns[k], graph)))

\* validate_circuit with all_errors and all_warnings shared between calls (as
\* mutable defaults would be): each call adds to what the call before returned
validate_circuit_SharedLists(graph, checks) ==
    LET fns == IF checks # None THEN checks ELSE ALL_CHECKS
        acc == ValidateLoop(graph, fns, 1,
                   [all_errors |-> validation.errors, all_warnings |-> validation.warnings,
                    checks_passed |-> 0])
    IN  ValidationResult(IF Len(acc.all_errors) = 0 THEN "VALID" ELSE "INVALID",
                         acc.all_errors, acc.all_warnings, acc.checks_passed, Len(fns))

\* validate_circuit with the status VALID only when there is no issue at all
validate_circuit_Strict(graph, checks) ==
    LET fns == IF checks # None THEN checks ELSE ALL_CHECKS
        acc == ValidateLoop(graph, fns, 1,
                   [all_errors |-> <<>>, all_warnings |-> <<>>, checks_passed |-> 0])
    IN  ValidationResult(IF Len(acc.all_errors) + Len(acc.all_warnings) = 0
                         THEN "VALID" ELSE "INVALID",
                         acc.all_errors, acc.all_warnings, acc.checks_passed, Len(fns))

validate_circuit(graph, checks) ==
    LET fns == IF checks # None THEN checks ELSE ALL_CHECKS
        acc == ValidateLoop(graph, fns, 1,
                   [all_errors |-> <<>>, all_warnings |-> <<>>, checks_passed |-> 0])
    IN  ValidationResult(IF Len(acc.all_errors) = 0 THEN "VALID" ELSE "INVALID",
                         acc.all_errors, acc.all_warnings, acc.checks_passed, Len(fns))

(***************************************************************************)
(* validation/correction.py                                                *)
(* A fixer mutates the graph it is given and returns its log; here it      *)
(* returns both, the graph after the mutation and the log.                 *)
(***************************************************************************)
CorrectionResult(corrected_graph, corrections) ==
    [corrected_graph |-> corrected_graph, corrections |-> corrections]

\* _fix_missing_ground with the new edge on the supply net (net_name and
\* nodes as in the capacitor's supply edge) instead of the ground net
fix_missing_ground_SupplyNet(graph, error) ==
    LET NewEdge(node_id) ==
            CircuitEdge("E_FIX_GND_" \o node_id, "3V3", "P", "GND", "GND", "3V3", "power")
    IN  [graph |-> [graph EXCEPT !.edges = @ \o MapSeq(error.node_ids, NewEdge)],
         corrections |-> MapSeq(error.node_ids,
                                LAMBDA node_id : "Added ground connection for " \o node_id)]

fix_missing_ground(graph, error) ==
    LET NewEdge(node_id) ==
            CircuitEdge("E_FIX_GND_" \o node_id, node_id, "GND", "GND", "GND", "GND", "power")
    IN  [graph |-> [graph EXCEPT !.edges = @ \o MapSeq(error.node_ids, NewEdge)],
         corrections |-> MapSeq(error.node_ids,
                                LAMBDA node_id : "Added ground connection for " \o node_id)]

fix_missing_decoupling(graph, error) ==
    LET existing_caps ==
            Len(SelectSeq(graph.nodes, LAMBDA n :
                    /\ n.type = "passive"
                    /\ StartsWith(Get(n.properties, "purpose", ""), "decoupling")))
        \* enumerate() counts from 0, the sequence index k from 1
        cap_id(k) == "C_FIX_" \o ToString(existing_caps + (k - 1) + 1)
        NewNode(k) ==
            CircuitNode(cap_id(k), "passive", "GRM188R71C104KA01D",
                        [value |-> "100nF", purpose |-> "decoupling capacitor"],
                        <<"P1", "P2">>)
        NewEdges(k) ==
            << CircuitEdge("E_FIX_CAP_" \o cap_id(k) \o "_VCC",
                           "3V3", "P", cap_id(k), "P1", "3V3", "power"),
               CircuitEdge("E_FIX_CAP_" \o cap_id(k) \o "_GND",
                           cap_id(k), "P2", "GND", "GND", "GND", "power") >>
        idx == 1..Len(error.node_ids)
    IN  [graph |-> [graph EXCEPT
                        !.nodes = @ \o [k \in idx |-> NewNode(k)],
                        !.edges = @ \o Flatten([k \in idx |-> NewEdges(k)])],
         corrections |-> [k \in idx |->
                            "Added 100nF decoupling capacitor " \o cap_id(k)
                                \o " for " \o error.node_ids[k]]]

fix_missing_pullups(graph, error) ==
    LET lines == <<"SDA", "SCL">>
        r_id(line) == "R_FIX_PU_" \o line
        NewNode(line) ==
            CircuitNode(r_id(line), "passive", "RC0402FR-074K7L",
                        [value |-> "4.7k", purpose |-> "I2C pull-up (" \o line \o ")"],
                        <<"P1", "P2">>)
        NewEdges(line) ==
            << CircuitEdge("E_FIX_PU_" \o line \o "_VCC",
                           "3V3", "P", r_id(line), "P1", "3V3", "power"),
               CircuitEdge("E_FIX_PU_" \o line \o "_SIG",
                           r_id(line), "P2", "U1", line, "I2C_" \o line, "signal") >>
    IN  [graph |-> [graph EXCEPT
                        !.nodes = @ \o MapSeq(lines, NewNode),
                        !.edges = @ \o Flatten(MapSeq(lines, NewEdges))],
         corrections |-> MapSeq(lines, LAMBDA line : "Added 4.7k pull-up on I2C " \o line)]

\* the keys of FIXERS
FIXERS ==
    [E_MISSING_GROUND     |-> "_fix_missing_ground",
     W_MISSING_DECOUPLING |-> "_fix_missing_decoupling",
     W_MISSING_PULLUP     |-> "_fix_missing_pullups"]

\* fixer(corrected, issue)
RunFixer(fixer, graph, issue) ==
    CASE fixer = "_fix_missing_ground"     -> fix_missing_ground(graph, issue)
      [] fixer = "_fix_missing_decoupling" -> fix_missing_decoupling(graph, issue)
      [] fixer = "_fix_missing_pullups"    -> fix_missing_pullups(graph, issue)

\* the for loop of correct_circuit with a log entry for an issue that has no
\* registered fixer
RECURSIVE CorrectLoop_LogsSkipped(_, _, _, _)
CorrectLoop_LogsSkipped(corrected, all_issues, k, log) ==
    IF k > Len(all_issues) THEN CorrectionResult(corrected, log)
    ELSE LET issue == all_issues[k]
         IN  IF issue.code \in DOMAIN FIXERS
             THEN LET fixed == RunFixer(FIXERS[issue.code], corrected, issue)
                  IN  CorrectLoop_LogsSkipped(fixed.graph, all_issues, k + 1,
                                              log \o fixed.corrections)
             ELSE CorrectLoop_LogsSkipped(corrected, all_issues, k + 1,
                                          Append(log, "No fixer for " \o issue.code))

\* the for loop of correct_circuit from issue number k on
RECURSIVE CorrectLoop(_, _, _, _)
CorrectLoop(corrected, all_issues, k, log) ==
    IF k > Len(all_issues) THEN CorrectionResult(corrected, log)
    ELSE LET issue == all_issues[k]
         IN  IF issue.code \in DOMAIN FIXERS
             THEN LET fixed == RunFixer(FIXERS[issue.code], corrected, issue)
                  IN  CorrectLoop(fixed.graph, all_issues, k + 1, log \o fixed.corrections)
             ELSE CorrectLoop(corrected, all_issues, k + 1, log)

\* all_issues = validation.warnings + validation.errors
AllIssues_WarningsFirst(v) == v.warnings \o v.errors

\* all_issues = validation.errors + validation.warnings
AllIssues(v) == v.errors \o v.warnings

\* corrected = graph: no copy, the same object
Deepcopy_Alias(h, ref) == [heap |-> h, ref |-> ref]

\* corrected = deepcopy(graph): a new object, equal to the one copied
Deepcopy(h, ref) == [heap |-> Append(h, h[ref]), ref |-> Len(h) + 1]

\* correct_circuit on the graph object ref of the heap h: the heap after the
\* call, the reference of the corrected graph, and the corrections
correct_circuit(h, ref, v) ==
    LET copy == Deepcopy(h, ref)
        res  == CorrectLoop(copy.heap[copy.ref], AllIssues(v), 1, <<>>)
    IN  [heap |-> [copy.heap EXCEPT ![copy.ref] = res.corrected_graph],
         corrected_graph |-> copy.ref,
         corrections |-> res.corrections]

(***************************************************************************)
(* bom/generator.py, pcb/constraints.py: the parts of the two generators   *)
(* that depend on the graph alone (no component database, no prices).      *)
(***************************************************************************)
\* generate_bom: one entry per part number, in order of first occurrence,
\* with the number of nodes carrying it (no purpose of the graphs below
\* holds a "(x<n>)" multiplier), then the stable sort by type order.
generate_bom(graph) ==
    LET parts == {n.part_number : n \in Range(graph.nodes)}
        First(p) == CHOOSE k \in 1..Len(graph.nodes) :
                        /\ graph.nodes[k].part_number = p
                        /\ \A m \in 1..(k - 1) : graph.nodes[m].part_number # p
        type_order(t) == CASE t = "mcu" -> 0 [] t = "sensor" -> 1 [] t = "regulator" -> 2
                           [] t = "passive" -> 3 [] t = "protection" -> 4 [] OTHER -> 9
        Key(p) == type_order(graph.nodes[First(p)].type)
        Before(p, q) == Key(p) < Key(q) \/ (Key(p) = Key(q) /\ First(p) < First(q))
        Entry(p) == [part_number |-> p,
                     quantity |-> Cardinality({k \in 1..Len(graph.nodes) :
                                                  graph.nodes[k].part_number = p})]
        entries == [k \in 1..Cardinality(parts) |->
                       Entry(CHOOSE p \in parts :
                                 Cardinality({q \in parts : Before(q, p)}) = k - 1)]
    IN  [bom |-> entries, component_count |-> Len(graph.nodes)]

\* generate_pcb_constraints: the estimated current draw and the layer count
generate_pcb_constraints(graph) ==
    LET draw(node) == CASE node.type = "mcu" -> 80 [] node.type = "sensor" -> 5
                        [] node.type = "actuator" -> 200 [] OTHER -> 0
        RECURSIVE total(_)
        total(k) == IF k = 0 THEN 0 ELSE total(k - 1) + draw(graph.nodes[k])
        has_high_speed == \E n \in Range(graph.nodes) : Get(n.properties, "clock_mhz", 0) > 100
    IN  [max_current_ma |-> total(Len(graph.nodes)),
         layer_count |-> IF has_high_speed \/ Len(graph.nodes) > 30 \/ Len(graph.edges) > 60
                         THEN 4 ELSE 2]

\* no BOM / no PCB constraints (Python's None)
NoBOM == [bom |-> <<>>, component_count |-> -1]

NoPCB == [max_current_ma |-> -1, layer_count |-> -1]

(***************************************************************************)
(* The graphs the entry points are run on: every graph made of at most     *)
(* MaxNodes nodes, MaxEdges edges and MaxRails power rails of the          *)
(* catalogues below, in catalogue order, with either ground net and any    *)
(* of the power sources.                                                   *)
(***************************************************************************)
MaxNodes == 2

MaxEdges == 2

MaxRails == 1

NodeCatalogue ==
    << CircuitNode("U1", "mcu", "ESP32-C3", [gpio_max_current_mA |-> 40],
                   <<"VCC", "GND", "SDA", "SCL", "GPIO0">>),
       CircuitNode("S1", "sensor", "BME280",
                   [operating_voltage_min |-> 45, operating_voltage_max |-> 55],
                   <<"VCC", "GND", "SDA", "SCL">>),
       CircuitNode("REG1", "regulator", "AMS1117-3.3",
                   [vout |-> 33, dropout_v |-> 11, vin_min |-> 45],
                   <<"VIN", "VOUT", "GND">>),
       CircuitNode("C1", "passive", "GRM188R71C104KA01D",
                   [value |-> "100nF", purpose |-> "Decoupling cap"], <<"P1", "P2">>),
       CircuitNode("M1", "actuator", "SG90", [current_draw_mA |-> 50], <<"IN">>) >>

EdgeCatalogue ==
    << CircuitEdge("E1", "U1", "GND", "GND", "GND", "GND", "power"),
       CircuitEdge("E2", "S1", "GND", "GND", "GND", "AGND", "ground"),
       CircuitEdge("E3", "U1", "vcc", "GND", "GND", "SHORT", "power"),
       CircuitEdge("E4", "U1", "SDA", "S1", "SDA", "I2C_SDA", "signal"),
       CircuitEdge("E5", "C1", "P1", "U1", "VCC", "3V3", "power"),
       CircuitEdge("E6", "U1", "GPIO0", "M1", "IN", "DRV", "signal") >>

RailCatalogue ==
    << PowerRail("3V3", 33, "REG1", <<"U1", "S1">>),
       PowerRail("AUX", 33, "REG1", <<"C_FIX_3">>) >>

GroundNets == {"GND", "AGND"}

PowerSources == {[type |-> "battery", voltage |-> 37],
                 [type |-> "usb", voltage |-> 50]}

\* the sets of at most max positions of the catalogue cat
Choices(cat, max) == {idx \in SUBSET (1..Len(cat)) : Cardinality(idx) <= max}

Graphs ==
    {CircuitGraph(Pick(NodeCatalogue, ns, 1), Pick(EdgeCatalogue, es, 1),
                  Pick(RailCatalogue, rs, 1), gnd, src) :
        ns \in Choices(NodeCatalogue, MaxNodes),
        es \in Choices(EdgeCatalogue, MaxEdges),
        rs \in Choices(RailCatalogue, MaxRails),
        gnd \in GroundNets, src \in PowerSources}

(***************************************************************************)
(* State shared by the entry points                                        *)
(***************************************************************************)
MAX_CORRECTION_ITERATIONS == 3

\* One entry of the call history: the entry point `by` called op on the graph
\* object `graph`; for validate_circuit, arg is the ValidationResult returned
\* and status its status; for correct_circuit, arg is the ValidationResult
\* passed, corrections the log returned and result the graph object returned.
Event(by, op, graph, arg, status, corrections, result) ==
    [by |-> by, op |-> op, graph |-> graph, arg |-> arg, status |-> status,
     corrections |-> corrections, result |-> result]

ValidateEvent(by, ref, v) == Event(by, "validate_circuit", ref, v, v.status, <<>>, 0)

CorrectEvent(by, ref, v, res) ==
    Event(by, "correct_circuit", ref, v, v.status, res.corrections, res.corrected_graph)

\* the calls of the two generators on the graph object ref
GenerateEvents(by, first, second, ref) ==
    << Event(by, first, ref, NoResult, "", <<>>, 0),
       Event(by, second, ref, NoResult, "", <<>>, 0) >>

\* graph_data of a Circuit row that has no graph yet (None)
NoGraph == CircuitGraph(<<>>, <<>>, <<>>, "None", [type |-> "None"])

\* models/project.py: a Circuit row as created (version 1, is_valid False)
NewRow ==
    [graph_data |-> NoGraph, is_valid |-> FALSE, validation_errors |-> NoResult,
     bom_data |-> NoBOM, pcb_constraints_data |-> NoPCB, version |-> 1]

\* no _llm_call_with_retry call is being made
NoRequest == [phase |-> "", system_prompt |-> "", user_prompt |-> ""]

\* last_error = None
NoError == [type |-> "None", message |-> ""]

NoOutcome == [kind |-> "none"]

RetryIdle ==
    /\ request = NoRequest
    /\ attempt = 0
    /\ raw_output = ""
    /\ last_error = NoError
    /\ outcome = NoOutcome

\* the sync server as the module is imported: no room, no connection
SyncIdle ==
    /\ room = [peers |-> <<>>, state |-> <<>>, version |-> 0]
    /\ handlers = <<>>
    /\ inbox = <<>>

\* the state when an entry point is called on the graph g
InitWith(g) ==
    /\ RetryIdle
    /\ SyncIdle
    /\ given = g
    /\ heap = <<g>>
    /\ circuit = 1
    /\ validation = NoResult
    /\ check_fns = None
    /\ all_corrections = <<>>
    /\ iterations = 0
    /\ i = 0
    /\ pcb_constraints = NoPCB
    /\ bom = NoBOM
    /\ pipeline_status = "running"
    /\ row = NewRow
    /\ trace = <<>>

(***************************************************************************)
(* services/pipeline.py: run_pipeline from the graph generate_circuit      *)
(* returned (heap[1]) on                                                   *)
(***************************************************************************)
\* PipelineValidate leaving the loop only when the result has no issue at all
PipelineValidate_BreakWhenClean ==
    /\ entry = "run_pipeline" /\ pc = "validate"
    /\ iterations' = i + 1
    /\ validation' = validate_circuit(heap[circuit], None)
    /\ check_fns' = None
    /\ pc' = IF validation'.status = "VALID" /\ Len(validation'.warnings) = 0
             THEN "downstream" ELSE "correct"
    /\ trace' = Append(trace, ValidateEvent(entry, circuit, validation'))
    /\ UNCHANGED <<retry_vars, sync_vars>>
    /\ UNCHANGED <<given, heap, circuit, all_corrections, i, entry, pcb_constraints, bom,
                   pipeline_status, row>>

\* validation = validate_circuit(circuit) at the top of the for body, and the break
PipelineValidate ==
    /\ entry = "run_pipeline" /\ pc = "validate"
    /\ iterations' = i + 1
    /\ validation' = validate_circuit(heap[circuit], None)
    /\ check_fns' = None
    /\ pc' = IF validation'.status = "VALID" THEN "downstream" ELSE "correct"
    /\ trace' = Append(trace, ValidateEvent(entry, circuit, validation'))
    /\ UNCHANGED <<retry_vars, sync_vars>>
    /\ UNCHANGED <<given, heap, circuit, all_corrections, i, entry, pcb_constraints, bom,
                   pipeline_status, row>>

\* PipelineCorrect in a loop over range(MAX_CORRECTION_ITERATIONS + 1)
PipelineCorrect_OneMore ==
    /\ entry = "run_pipeline" /\ pc = "correct"
    /\ LET result == correct_circuit(heap, circuit, validation)
       IN  /\ heap' = result.heap
           /\ circuit' = result.corrected_graph
           /\ all_corrections' = all_corrections \o result.corrections
           /\ trace' = Append(trace, CorrectEvent(entry, circuit, validation, result))
    /\ i' = i + 1
    /\ pc' = IF i + 1 < MAX_CORRECTION_ITERATIONS + 1 THEN "validate" ELSE "final"
    /\ UNCHANGED <<retry_vars, sync_vars>>
    /\ UNCHANGED <<given, validation, check_fns, iterations, entry, pcb_constraints, bom,
                   pipeline_status, row>>

\* result = correct_circuit(circuit, validation) and the rest of the for body
PipelineCorrect ==
    /\ entry = "run_pipeline" /\ pc = "correct"
    /\ LET result == correct_circuit(heap, circuit, validation)
       IN  /\ heap' = result.heap
           /\ circuit' = result.corrected_graph
           /\ all_corrections' = all_corrections \o result.corrections
           /\ trace' = Append(trace, CorrectEvent(entry, circuit, validation, result))
    /\ i' = i + 1
    /\ pc' = IF i + 1 < MAX_CORRECTION_ITERATIONS THEN "validate" ELSE "final"
    /\ UNCHANGED <<retry_vars, sync_vars>>
    /\ UNCHANGED <<given, validation, check_fns, iterations, entry, pcb_constraints, bom,
                   pipeline_status, row>>

\* PipelineFinal without the validation after the last correction
PipelineFinal_Stale ==
    /\ entry = "run_pipeline" /\ pc = "final"
    /\ pc' = "downstream"
    /\ UNCHANGED <<retry_vars, sync_vars>>
    /\ UNCHANGED <<given, heap, circuit, validation, check_fns, all_corrections,
                   iterations, i, entry, pcb_constraints, bom, pipeline_status, row, trace>>

\* the else branch of the for: the validation after the last correction
PipelineFinal ==
    /\ entry = "run_pipeline" /\ pc = "final"
    /\ validation' = validate_circuit(heap[circuit], None)
    /\ check_fns' = None
    /\ pc' = "downstream"
    /\ trace' = Append(trace, ValidateEvent(entry, circuit, validation'))
    /\ UNCHANGED <<retry_vars, sync_vars>>
    /\ UNCHANGED <<given, heap, circuit, all_corrections, iterations, i, entry,
                   pcb_constraints, bom, pipeline_status, row>>

\* PipelineDownstream generating the BOM whatever the status
PipelineDownstream_BomUngated ==
    /\ entry = "run_pipeline" /\ pc = "downstream"
    /\ pcb_constraints' = IF validation.status = "VALID"
                          THEN generate_pcb_constraints(heap[circuit]) ELSE NoPCB
    /\ bom' = generate_bom(heap[circuit])
    /\ pipeline_status' = IF validation.status = "VALID" THEN "completed"
                          ELSE "completed_with_errors"
    /\ trace' = trace \o
                (IF validation.status = "VALID"
                 THEN GenerateEvents(entry, "generate_pcb_constraints", "generate_bom", circuit)
                 ELSE << Event(entry, "generate_bom", circuit, NoResult, "", <<>>, 0) >>)
    /\ pc' = "done"
    /\ UNCHANGED <<retry_vars, sync_vars>>
    /\ UNCHANGED <<given, heap, circuit, validation, check_fns, all_corrections,
                   iterations, i, entry, row>>

\* engines 6 and 7 and the PipelineResult
PipelineDownstream ==
    /\ entry = "run_pipeline" /\ pc = "downstream"
    /\ pcb_constraints' = IF validation.status = "VALID"
                          THEN generate_pcb_constraints(heap[circuit]) ELSE NoPCB
    /\ bom' = IF validation.status = "VALID" THEN generate_bom(heap[circuit]) ELSE NoBOM
    /\ pipeline_status' = IF validation.status = "VALID" THEN "completed"
                          ELSE "completed_with_errors"
    /\ trace' = trace \o
                (IF validation.status = "VALID"
                 THEN GenerateEvents(entry, "generate_pcb_constraints", "generate_bom", circuit)
                 ELSE <<>>)
    /\ pc' = "done"
    /\ UNCHANGED <<retry_vars, sync_vars>>
    /\ UNCHANGED <<given, heap, circuit, validation, check_fns, all_corrections,
                   iterations, i, entry, row>>

(***************************************************************************)
(* services/circuit_service.py                                             *)
(***************************************************************************)
\* how many times CircuitService.validate is called after the generation
MaxServiceOps == 1

\* generate_from_description: validation = validate_circuit(graph) in the for,
\* and the break
ServiceLoopValidate ==
    /\ entry = "generate_from_description" /\ pc = "validate"
    /\ validation' = validate_circuit(heap[circuit], None)
    /\ check_fns' = None
    /\ pc' = IF validation'.status = "VALID" THEN "store" ELSE "correct"
    /\ trace' = Append(trace, ValidateEvent(entry, circuit, validation'))
    /\ UNCHANGED <<retry_vars, sync_vars>>
    /\ UNCHANGED <<given, heap, circuit, all_corrections, iterations, i, entry,
                   pcb_constraints, bom, pipeline_status, row>>

\* generate_from_description: result = correct_circuit(graph, validation) and
\* graph = result.corrected_graph
ServiceLoopCorrect ==
    /\ entry = "generate_from_description" /\ pc = "correct"
    /\ LET result == correct_circuit(heap, circuit, validation)
       IN  /\ heap' = result.heap
           /\ circuit' = result.corrected_graph
           /\ trace' = Append(trace, CorrectEvent(entry, circuit, validation, result))
    /\ i' = i + 1
    /\ pc' = IF i + 1 < MAX_CORRECTION_ITERATIONS THEN "validate" ELSE "store"
    /\ UNCHANGED <<retry_vars, sync_vars>>
    /\ UNCHANGED <<given, validation, check_fns, all_corrections, iterations, entry,
                   pcb_constraints, bom, pipeline_status, row>>

\* is_valid, validation_errors and, `if circuit.is_valid`, bom_data and
\* pcb_constraints_data of the row r, for the graph g and its validation v
StoreValidation(r, g, v) ==
    LET is_valid == v.status = "VALID"
    IN  [r EXCEPT !.is_valid = is_valid,
                  !.validation_errors = v,
                  !.bom_data = IF is_valid THEN generate_bom(g) ELSE @,
                  !.pcb_constraints_data =
                      IF is_valid THEN generate_pcb_constraints(g) ELSE @]

\* generate_from_description after the for: the validation of the final graph,
\* the row fields, and the BOM and PCB constraints if valid
ServiceStore ==
    /\ entry = "generate_from_description" /\ pc = "store"
    /\ validation' = validate_circuit(heap[circuit], None)
    /\ check_fns' = None
    /\ row' = [StoreValidation(row, heap[circuit], validation')
                  EXCEPT !.graph_data = heap[circuit], !.version = @ + 1]
    /\ bom' = IF row'.is_valid THEN row'.bom_data ELSE NoBOM
    /\ pcb_constraints' = IF row'.is_valid THEN row'.pcb_constraints_data ELSE NoPCB
    /\ trace' = Append(trace, ValidateEvent(entry, circuit, validation'))
                    \o (IF row'.is_valid
                        THEN GenerateEvents(entry, "generate_bom",
                                            "generate_pcb_constraints", circuit)
                        ELSE <<>>)
    /\ pc' = "idle"
    /\ UNCHANGED <<retry_vars, sync_vars>>
    /\ UNCHANGED <<given, heap, circuit, all_corrections, iterations, i, entry,
                   pipeline_status>>

\* CircuitService.validate on the stored row; graph = CircuitGraph(**graph_data)
\* is a new object
ServiceValidate ==
    /\ entry = "generate_from_description" /\ pc = "idle"
    /\ Cardinality({k \in 1..Len(trace) :
                        trace[k].by = "validate" /\ trace[k].op = "validate_circuit"})
           < MaxServiceOps
    /\ row.graph_data # NoGraph
    /\ heap' = Append(heap, row.graph_data)
    /\ circuit' = Len(heap) + 1
    /\ validation' = validate_circuit(heap'[circuit'], None)
    /\ check_fns' = None
    /\ row' = StoreValidation(row, heap'[circuit'], validation')
    /\ bom' = IF row'.is_valid THEN row'.bom_data ELSE NoBOM
    /\ pcb_constraints' = IF row'.is_valid THEN row'.pcb_constraints_data ELSE NoPCB
    /\ trace' = Append(trace, ValidateEvent("validate", circuit', validation'))
                    \o (IF row'.is_valid
                        THEN GenerateEvents("validate", "generate_bom",
                                            "generate_pcb_constraints", circuit')
                        ELSE <<>>)
    /\ UNCHANGED <<retry_vars, sync_vars>>
    /\ UNCHANGED <<given, all_corrections, iterations, i, pc, entry, pipeline_status>>

(***************************************************************************)
(* The correction loop: run_pipeline, and CircuitService's                 *)
(* generate_from_description followed by validate                          *)
(***************************************************************************)
Init ==
    /\ \E g \in Graphs : InitWith(g)
    /\ entry \in {"run_pipeline", "generate_from_description"}
    /\ pc = "validate"

Next ==
    \/ PipelineValidate
    \/ PipelineCorrect
    \/ PipelineFinal
    \/ PipelineDownstream
    \/ ServiceLoopValidate
    \/ ServiceLoopCorrect
    \/ ServiceStore
    \/ ServiceValidate

Spec == Init /\ [][Next]_vars

(***************************************************************************)
(* validate_circuit called directly on a graph with the default ground net *)
(* and the battery supply, with any list of at most MaxChecks registered   *)
(* checks (in any order, repetitions allowed) or without the checks        *)
(* argument                                                                *)
(***************************************************************************)
MaxChecks == 2

CheckLists ==
    {None} \cup UNION {[1..n -> Range(ALL_CHECKS)] : n \in 0..MaxChecks}

ApiValidate ==
    /\ entry = "validate_circuit" /\ pc = "call"
    /\ \E checks \in CheckLists :
          /\ validation' = validate_circuit(heap[circuit], checks)
          /\ check_fns' = checks
          /\ trace' = Append(trace, ValidateEvent(entry, circuit, validation'))
    /\ pc' = "returned"
    /\ UNCHANGED <<retry_vars, sync_vars>>
    /\ UNCHANGED <<given, heap, circuit, all_corrections, iterations, i, entry,
                   pcb_constraints, bom, pipeline_status, row>>

InitValidate ==
    /\ \E g \in Graphs :
          /\ g.ground_net = "GND"
          /\ g.power_source.type = "battery"
          /\ InitWith(g)
    /\ entry = "validate_circuit"
    /\ pc = "call"

NextValidate == ApiValidate

SpecValidate == InitValidate /\ [][NextValidate]_vars

(***************************************************************************)
(* validate_circuit and correct_circuit called directly, in any order, on  *)
(* the graph given and on the graphs correct_circuit has returned:         *)
(* correct_circuit is passed the last ValidationResult (of whichever graph *)
(* that was), or a result made by hand, until MaxObjects graph objects     *)
(* exist.  The graph given has no power rail, the battery supply and fewer *)
(* than MaxEdges edges.                                                    *)
(***************************************************************************)
MaxObjects == 3

\* a result no validate_circuit call returns: it carries the code the pull-up
\* fixer is registered for
HandMadeResults ==
    { ValidationResult("VALID", <<>>,
                       <<ValidationError("W_MISSING_PULLUP", "warning", <<>>)>>, 7, 7) }

DirectValidate ==
    /\ entry = "correct_circuit" /\ pc = "call"
    /\ \E ref \in DOMAIN heap :
          /\ circuit' = ref
          /\ validation' = validate_circuit(heap[ref], None)
    /\ check_fns' = None
    /\ UNCHANGED <<retry_vars, sync_vars>>
    /\ UNCHANGED <<given, heap, all_corrections, iterations, i, pc, entry,
                   pcb_constraints, bom, pipeline_status, row, trace>>

DirectCorrect ==
    /\ entry = "correct_circuit" /\ pc = "call"
    /\ Len(heap) < MaxObjects
    /\ \E ref \in DOMAIN heap :
       \E v \in (IF validation = NoResult THEN {} ELSE {validation}) \cup HandMadeResults :
          LET result == correct_circuit(heap, ref, v)
          IN  /\ heap' = result.heap
              /\ circuit' = result.corrected_graph
              /\ all_corrections' = result.corrections
              /\ trace' = Append(trace, CorrectEvent(entry, ref, v, result))
    /\ UNCHANGED <<retry_vars, sync_vars>>
    /\ UNCHANGED <<given, validation, check_fns, iterations, i, pc, entry,
                   pcb_constraints, bom, pipeline_status, row>>

InitCorrect ==
    /\ \E g \in Graphs :
          /\ g.power_source.type = "battery"
          /\ Len(g.power_rails) = 0
          /\ Len(g.edges) < MaxEdges
          /\ InitWith(g)
    /\ entry = "correct_circuit"
    /\ pc = "call"

NextCorrect ==
    \/ DirectValidate
    \/ DirectCorrect

SpecCorrect == InitCorrect /\ [][NextCorrect]_vars

(***************************************************************************)
(* validate_circuit called with one of the two supply checks alone, as the *)
(* tests call a single check, on a graph without edges: at most MaxNodes   *)
(* nodes and MaxRails rails of the catalogues below and any of the power   *)
(* sources, among them the default power_source, which has no voltage.     *)
(* Voltages are in tenths of a volt.                                       *)
(***************************************************************************)
SupplyNodeCatalogue ==
    << CircuitNode("U1", "mcu", "ESP32-C3", [gpio_max_current_mA |-> 40],
                   <<"VCC", "GND", "SDA", "SCL", "GPIO0">>),
       CircuitNode("S1", "sensor", "BME280",
                   [operating_voltage_min |-> 45, operating_voltage_max |-> 55],
                   <<"VCC", "GND", "SDA", "SCL">>),
       CircuitNode("S2", "sensor", "DHT22", [operating_voltage_min |-> 33],
                   <<"VCC", "GND", "DATA">>),
       CircuitNode("S3", "sensor", "MPU6050", [operating_voltage_max |-> 36],
                   <<"VCC", "GND", "SDA", "SCL">>),
       CircuitNode("REG1", "regulator", "AMS1117-3.3",
                   [vout |-> 33, dropout_v |-> 11, vin_min |-> 45],
                   <<"VIN", "VOUT", "GND">>),
       CircuitNode("REG2", "regulator", "MCP1700-3302E",
                   [vout |-> 33, dropout_v |-> 5], <<"VIN", "VOUT", "GND">>) >>

SupplyRailCatalogue ==
    << PowerRail("3V3", 33, "REG1", <<"U1", "S1", "S2">>),
       PowerRail("5V5", 55, "REG1", <<"S1", "GHOST", "S3">>),
       PowerRail("HV", 56, "VBAT", <<"S2", "U1">>),
       PowerRail("OFF", 0, "VBAT", <<"U1", "S3", "S2">>) >>

SupplyPowerSources ==
    {[type |-> "battery"],
     [type |-> "battery", voltage |-> 0],
     [type |-> "battery", voltage |-> 37],
     [type |-> "battery", voltage |-> 38],
     [type |-> "usb", voltage |-> 44],
     [type |-> "usb", voltage |-> 45]}

SupplyGraphs ==
    {CircuitGraph(Pick(SupplyNodeCatalogue, ns, 1), <<>>,
                  Pick(SupplyRailCatalogue, rs, 1), "GND", src) :
        ns \in Choices(SupplyNodeCatalogue, MaxNodes),
        rs \in Choices(SupplyRailCatalogue, MaxRails),
        src \in SupplyPowerSources}

SupplyChecks == {"check_voltage_compatibility", "check_regulator_dropout"}

\* validate_circuit(graph, checks=[check_fn])
SupplyCheck ==
    /\ entry = "check_fn" /\ pc = "call"
    /\ \E check_fn \in SupplyChecks :
          /\ validation' = validate_circuit(heap[circuit], <<check_fn>>)
          /\ check_fns' = <<check_fn>>
          /\ trace' = Append(trace, ValidateEvent(entry, circuit, validation'))
    /\ pc' = "returned"
    /\ UNCHANGED <<retry_vars, sync_vars>>
    /\ UNCHANGED <<given, heap, circuit, all_corrections, iterations, i, entry,
                   pcb_constraints, bom, pipeline_status, row>>

InitSupply ==
    /\ \E g \in SupplyGraphs : InitWith(g)
    /\ entry = "check_fn"
    /\ pc = "call"

NextSupply == SupplyCheck

SpecSupply == InitSupply /\ [][NextSupply]_vars

(***************************************************************************)
(* validate_circuit called with one of the five wiring checks alone, on a  *)
(* graph of at most MaxNodes nodes and MaxEdges edges of the catalogues    *)
(* below, with either ground net.  The catalogues hold every node type,    *)
(* MCUs with and without gpio_max_current_mA, loads drawing less than, as  *)
(* much as and more than the limit, edges grounded by net name and by      *)
(* signal_type, supply-to-ground edges in both directions, and pull-ups    *)
(* named by purpose and by the pin they are wired to.                      *)
(***************************************************************************)
WiringNodeCatalogue ==
    << CircuitNode("U1", "mcu", "ESP32-C3", [gpio_max_current_mA |-> 40],
                   <<"VCC", "GND", "SDA", "SCL", "GPIO0", "GPIO1">>),
       CircuitNode("U2", "mcu", "ATmega328P", [clock_mhz |-> 16],
                   <<"VCC", "GND", "SDA", "SCL", "GPIO0", "GPIO1">>),
       CircuitNode("S1", "sensor", "BME280", [current_draw_mA |-> 25],
                   <<"VCC", "GND", "SDA", "SCL", "INT">>),
       CircuitNode("REG1", "regulator", "AMS1117-3.3",
                   [vout |-> 33, dropout_v |-> 11, vin_min |-> 45],
                   <<"VIN", "VOUT", "GND">>),
       CircuitNode("C1", "passive", "GRM188R71C104KA01D",
                   [value |-> "100nF", purpose |-> "Decoupling cap"], <<"P1", "P2">>),
       CircuitNode("R1", "passive", "RC0402FR-074K7L",
                   [value |-> "4.7k", purpose |-> "Pullup"], <<"P1", "P2">>),
       CircuitNode("R2", "passive", "RC0402FR-074K7L",
                   [value |-> "4.7k", purpose |-> "I2C pull-up (SCL)"], <<"P1", "P2">>),
       CircuitNode("M1", "actuator", "SG90", [current_draw_mA |-> 50], <<"IN">>),
       CircuitNode("M2", "actuator", "LED", [current_draw_mA |-> 20], <<"IN">>),
       CircuitNode("D1", "protection", "SMBJ5.0A", [purpose |-> "TVS diode"],
                   <<"P1", "P2">>),
       CircuitNode("J1", "connector", "JST-PH-2", [purpose |-> "battery connector"],
                   <<"P1", "P2">>) >>

WiringEdgeCatalogue ==
    << CircuitEdge("E1", "U1", "GND", "GND", "GND", "GND", "power"),
       CircuitEdge("E2", "REG1", "GND", "S1", "GND", "RTN", "ground"),
       CircuitEdge("E3", "U1", "vcc", "GND", "GND", "SHORT", "power"),
       CircuitEdge("E4", "S1", "gnd", "REG1", "VOUT", "3V3", "power"),
       CircuitEdge("E5", "U1", "VCC", "REG1", "GND", "AGND", "power"),
       CircuitEdge("E6", "U1", "VCC", "S1", "GND", "SHORT", "ground"),
       CircuitEdge("E7", "U2", "SDA", "S1", "SDA", "I2C_SDA", "signal"),
       CircuitEdge("E8", "U2", "SCL", "S1", "SCL", "I2C_SCL", "signal"),
       CircuitEdge("E9", "U1", "GPIO0", "M1", "IN", "DRV", "signal"),
       CircuitEdge("E10", "U2", "GPIO0", "M2", "IN", "DRV", "signal"),
       CircuitEdge("E11", "U2", "GPIO1", "M1", "IN", "DRV", "power"),
       CircuitEdge("E12", "M1", "IN", "U2", "GPIO0", "DRV", "signal"),
       CircuitEdge("E13", "U1", "GPIO1", "X9", "IN", "DRV", "signal"),
       CircuitEdge("E14", "C1", "P1", "U1", "VCC", "3V3", "power"),
       CircuitEdge("E15", "S1", "VCC", "C1", "P2", "3V3", "power"),
       CircuitEdge("E16", "R1", "P2", "U1", "SDA", "i2c_sda", "signal"),
       CircuitEdge("E17", "U2", "scl", "R1", "P1", "PU", "power"),
       CircuitEdge("E18", "S1", "INT", "U1", "GPIO0", "I2C_INT", "signal") >>

WiringGraphs ==
    {CircuitGraph(Pick(WiringNodeCatalogue, ns, 1), Pick(WiringEdgeCatalogue, es, 1),
                  <<>>, gnd, [type |-> "battery", voltage |-> 37]) :
        ns \in Choices(WiringNodeCatalogue, MaxNodes),
        es \in Choices(WiringEdgeCatalogue, MaxEdges),
        gnd \in GroundNets}

WiringChecks ==
    {"check_ground_continuity", "check_short_circuits", "check_gpio_overcurrent",
     "check_decoupling_caps", "check_pull_up_resistors"}

\* validate_circuit(graph, checks=[check_fn])
WiringCheck ==
    /\ entry = "check_fn" /\ pc = "call"
    /\ \E check_fn \in WiringChecks :
          /\ validation' = validate_circuit(heap[circuit], <<check_fn>>)
          /\ check_fns' = <<check_fn>>
          /\ trace' = Append(trace, ValidateEvent(entry, circuit, validation'))
    /\ pc' = "returned"
    /\ UNCHANGED <<retry_vars, sync_vars>>
    /\ UNCHANGED <<given, heap, circuit, all_corrections, iterations, i, entry,
                   pcb_constraints, bom, pipeline_status, row>>

InitWiring ==
    /\ \E g \in WiringGraphs : InitWith(g)
    /\ entry = "check_fn"
    /\ pc = "call"

NextWiring == WiringCheck

SpecWiring == InitWiring /\ [][NextWiring]_vars

(***************************************************************************)
(* ai/orchestrator.py: _llm_call_with_retry, for the phases parse_intent   *)
(* and generate_circuit.  The LLM is the environment: each call returns    *)
(* one of the contents below or fails with an APIError.  json.loads and    *)
(* the validators are given by their results on these contents.  The await *)
(* of the LLM call is the one suspension point of the coroutine.           *)
(***************************************************************************)
MAX_RETRIES == 3

\* what json.loads or a validator gives: a value, or the exception raised
Ok(value) == [ok |-> TRUE, value |-> value, error |-> NoError]

Raises(type, message) ==
    [ok |-> FALSE, value |-> <<>>, error |-> [type |-> type, message |-> message]]

\* response.choices[0].message.content of the completions the LLM may return
LlmContents ==
    {"", "{}", "{\"device_type\": \"logger\"}", "{\"device_type\": 7}",
     "{\"nodes\": 5}", "[]", "{\"device_type\": "}

\* the responses of the client: a completion, or an APIError
LlmResponses ==
    {[kind |-> "completion", content |-> c] : c \in LlmContents}
        \cup {[kind |-> "APIError", content |-> ""]}

\* _llm_call's return value for a completion: content or "{}"
llm_call(response) == IF response.content = "" THEN "{}" ELSE response.content

\* json.loads(raw_output) on the contents above; a JSON string is [t |-> "str"],
\* a JSON number [t |-> "int"]
json_loads(raw) ==
    CASE raw = "{}" -> Ok([kind |-> "object", fields |-> <<>>])
      [] raw = "{\"device_type\": \"logger\"}" ->
            Ok([kind |-> "object",
                fields |-> [device_type |-> [t |-> "str", v |-> "logger"]]])
      [] raw = "{\"device_type\": 7}" ->
            Ok([kind |-> "object", fields |-> [device_type |-> [t |-> "int", v |-> 7]]])
      [] raw = "{\"nodes\": 5}" ->
            Ok([kind |-> "object", fields |-> [nodes |-> [t |-> "int", v |-> 5]]])
      [] raw = "[]" -> Ok([kind |-> "array", fields |-> <<>>])
      [] raw = "{\"device_type\": " ->
            Raises("JSONDecodeError", "Expecting value: line 1 column 17 (char 16)")
      [] raw = "" ->
            Raises("JSONDecodeError", "Expecting value: line 1 column 1 (char 0)")

\* HardwareIntent.model_validate(data): device_type is a string or absent,
\* every other field has a default, unknown keys are ignored
validate_intent_output(data) ==
    IF data.kind # "object"
    THEN Raises("SchemaValidationError",
                "[intent_parsing] Schema validation failed: "
                    \o "Input should be a valid dictionary")
    ELSE IF "device_type" \in DOMAIN data.fields /\ data.fields.device_type.t # "str"
    THEN Raises("SchemaValidationError",
                "[intent_parsing] Schema validation failed: "
                    \o "device_type: Input should be a valid string")
    ELSE Ok([device_type |-> IF "device_type" \in DOMAIN data.fields
                             THEN data.fields.device_type.v ELSE "None"])

\* CircuitGraph.model_validate(data): nodes is a list or absent, every other
\* field has a default, unknown keys are ignored
validate_circuit_output(data) ==
    IF data.kind # "object"
    THEN Raises("SchemaValidationError",
                "[circuit_generation] Schema validation failed: "
                    \o "Input should be a valid dictionary")
    ELSE IF "nodes" \in DOMAIN data.fields
    THEN Raises("SchemaValidationError",
                "[circuit_generation] Schema validation failed: "
                    \o "nodes: Input should be a valid list")
    ELSE Ok(CircuitGraph(<<>>, <<>>, <<>>, "GND", <<>>))

\* validator(parsed), for the validator the phase is called with
Validator(phase, parsed) ==
    CASE phase = "intent_parsing"     -> validate_intent_output(parsed)
      [] phase = "circuit_generation" -> validate_circuit_output(parsed)

\* ai/prompts.py: retry_prompt(phase, previous_output, error_message, schema);
\* the schema text depends on the phase alone
retry_prompt(phase, previous_output, error_message) ==
    [system |-> "You are a JSON output correction engine. Your previous output for the "
                    \o phase \o " phase failed schema validation.",
     user   |-> "Your previous output was: " \o previous_output
                    \o " The validation error was: " \o error_message]

\* the calls parse_intent and generate_circuit make
LlmRequests ==
    {[phase |-> "intent_parsing", system_prompt |-> "intent system prompt",
      user_prompt |-> "a battery powered temperature logger"],
     [phase |-> "circuit_generation", system_prompt |-> "circuit system prompt",
      user_prompt |-> "ESP32-C3, BME280, AMS1117-3.3"]}

\* history: one _llm_call, the prompts sent and what came back
LlmEvent(system, user, response) ==
    [by |-> "_llm_call_with_retry", op |-> "_llm_call", system |-> system,
     user |-> user, response |-> response]

\* no run_pipeline, CircuitService or validate_circuit call is in progress
PipelineIdle ==
    /\ given = NoGraph
    /\ heap = <<>>
    /\ circuit = 0
    /\ validation = NoResult
    /\ check_fns = None
    /\ all_corrections = <<>>
    /\ iterations = 0
    /\ i = 0
    /\ pcb_constraints = NoPCB
    /\ bom = NoBOM
    /\ pipeline_status = "running"
    /\ row = NewRow
    /\ trace = <<>>

\* the top of the for body up to the return of `await _llm_call(...)`
LlmCall ==
    /\ entry = "_llm_call_with_retry" /\ pc = "call_llm"
    /\ LET prompts == IF attempt = 0
                      THEN [system |-> request.system_prompt, user |-> request.user_prompt]
                      ELSE retry_prompt(request.phase, raw_output, last_error.message)
       IN  \E response \in LlmResponses :
              /\ trace' = Append(trace, LlmEvent(prompts.system, prompts.user, response))
              /\ IF response.kind = "APIError"
                 THEN /\ outcome' = [kind |-> "raised", exception |-> "APIError",
                                     message |-> ""]
                      /\ pc' = "raised"
                      /\ UNCHANGED raw_output
                 ELSE /\ raw_output' = llm_call(response)
                      /\ pc' = "validate"
                      /\ UNCHANGED outcome
    /\ UNCHANGED <<request, attempt, last_error>>
    /\ UNCHANGED sync_vars
    /\ UNCHANGED <<given, heap, circuit, validation, check_fns, all_corrections,
                   iterations, i, entry, pcb_constraints, bom, pipeline_status, row>>

\* ParseAndValidate keeping the error of the first failed attempt
ParseAndValidate_StaleError ==
    /\ entry = "_llm_call_with_retry" /\ pc = "validate"
    /\ LET parsed  == json_loads(raw_output)
           checked == IF parsed.ok THEN Validator(request.phase, parsed.value) ELSE parsed
       IN  IF checked.ok
           THEN /\ outcome' = [kind |-> "returned", value |-> checked.value]
                /\ pc' = "returned"
                /\ UNCHANGED <<attempt, last_error>>
           ELSE /\ last_error' = IF last_error = NoError THEN checked.error ELSE last_error
                /\ attempt' = attempt + 1
                /\ IF attempt + 1 < MAX_RETRIES
                   THEN pc' = "call_llm" /\ UNCHANGED outcome
                   ELSE /\ outcome' =
                              [kind |-> "raised", exception |-> "RuntimeError",
                               message |-> "[" \o request.phase \o "] Failed after "
                                   \o ToString(MAX_RETRIES) \o " attempts. Last error: "
                                   \o last_error'.message]
                        /\ pc' = "raised"
    /\ UNCHANGED <<request, raw_output>>
    /\ UNCHANGED sync_vars
    /\ UNCHANGED <<given, heap, circuit, validation, check_fns, all_corrections,
                   iterations, i, entry, pcb_constraints, bom, pipeline_status, row, trace>>

\* the try block of the for body (return on success, last_error on failure)
\* and, when that was the last iteration, the raise after the loop; attempt
\* counts the iterations completed
ParseAndValidate ==
    /\ entry = "_llm_call_with_retry" /\ pc = "validate"
    /\ LET parsed  == json_loads(raw_output)
           checked == IF parsed.ok THEN Validator(request.phase, parsed.value) ELSE parsed
       IN  IF checked.ok
           THEN /\ outcome' = [kind |-> "returned", value |-> checked.value]
                /\ pc' = "returned"
                /\ UNCHANGED <<attempt, last_error>>
           ELSE /\ last_error' = checked.error
                /\ attempt' = attempt + 1
                /\ IF attempt + 1 < MAX_RETRIES
                   THEN pc' = "call_llm" /\ UNCHANGED outcome
                   ELSE /\ outcome' =
                              [kind |-> "raised", exception |-> "RuntimeError",
                               message |-> "[" \o request.phase \o "] Failed after "
                                   \o ToString(MAX_RETRIES) \o " attempts. Last error: "
                                   \o last_error'.message]
                        /\ pc' = "raised"
    /\ UNCHANGED <<request, raw_output>>
    /\ UNCHANGED sync_vars
    /\ UNCHANGED <<given, heap, circuit, validation, check_fns, all_corrections,
                   iterations, i, entry, pcb_constraints, bom, pipeline_status, row, trace>>

InitRetry ==
    /\ PipelineIdle
    /\ SyncIdle
    /\ request \in LlmRequests
    /\ attempt = 0
    /\ raw_output = ""
    /\ last_error = NoError
    /\ outcome = NoOutcome
    /\ entry = "_llm_call_with_retry"
    /\ pc = "call_llm"

NextRetry ==
    \/ LlmCall
    \/ ParseAndValidate

SpecRetry == InitRetry /\ [][NextRetry]_vars

(***************************************************************************)
(* routers/sync.py: one room of the sync server and the sync_websocket     *)
(* coroutine of each connection.  The coroutines run on one event loop: a  *)
(* coroutine runs alone from one await to the next, and at an await of     *)
(* send_text any other coroutine may run.  Connection c has the peer id    *)
(* peer_id(c) and connects once.  A message handed to send_text is in the  *)
(* inbox of the connection it was sent on, unless that connection's        *)
(* coroutine has ended (the send raises, and the exception is swallowed).  *)
(* The clocks are left out: they read the wall time and go into the        *)
(* messages only.  SYNC_REQUEST_FULL is left out.                          *)
(*                                                                         *)
(* room.peers is a dict: its entries are kept in insertion order, pop      *)
(* leaves a dead entry behind, and an iterator remembers its position in   *)
(* the entries, the size of the dict when it was made and how many items   *)
(* are left to give; next() raises RuntimeError when the size has changed, *)
(* or when an entry is found after all items were given.  (A dict of up to *)
(* five insertions is never resized, so entries never move.)               *)
(***************************************************************************)
MaxConns == 3

\* how many SYNC_PUSH messages the clients send in all
MaxPushes == 1

Conns == 1..MaxConns

peer_id(c) == "peer" \o ToString(c)

\* the diffs lists a SYNC_PUSH may carry: none, an add, an add followed by a
\* remove, and an update followed by a diff whose op the server does not know
DiffLists ==
    { <<>>,
      << [op |-> "add", path |-> "title", value |-> "v1"] >>,
      << [op |-> "add", path |-> "note", value |-> "n"],
         [op |-> "remove", path |-> "title", value |-> ""] >>,
      << [op |-> "update", path |-> "title", value |-> "v2"],
         [op |-> "move", path |-> "note", value |-> ""] >> }

\* _set_path(obj, path, value) for a path without dots
set_path(obj, path, value) ==
    [k \in DOMAIN obj \cup {path} |-> IF k = path THEN value ELSE obj[k]]

\* _del_path(obj, path) for a path without dots
del_path(obj, path) == [k \in DOMAIN obj \ {path} |-> obj[k]]

\* the for loop of handle_push over diffs, from diff number k on
RECURSIVE ApplyDiffs(_, _, _, _, _)
ApplyDiffs(state, diffs, k, accepted_diffs, rejected_paths) ==
    IF k > Len(diffs)
    THEN [state |-> state, accepted_diffs |-> accepted_diffs,
          rejected_paths |-> rejected_paths]
    ELSE LET diff == diffs[k]
         IN  IF diff.op = "add" \/ diff.op = "update"
             THEN ApplyDiffs(set_path(state, diff.path, diff.value), diffs, k + 1,
                             Append(accepted_diffs, diff), rejected_paths)
             ELSE IF diff.op = "remove"
             THEN ApplyDiffs(del_path(state, diff.path), diffs, k + 1,
                             Append(accepted_diffs, diff), rejected_paths)
             ELSE ApplyDiffs(state, diffs, k + 1, accepted_diffs,
                             Append(rejected_paths, diff.path))

\* a message of the protocol; the fields a type does not have are empty
Message(type, source, version, diffs, rejected) ==
    [type |-> type, source |-> source, version |-> version, diffs |-> diffs,
     rejected |-> rejected]

\* len(room.peers)
Used(peers) == Cardinality({k \in 1..Len(peers) : peers[k].live})

\* room.peers[peerId] = peer, for a peer id that is not in the dict
Insert(peers, c) == Append(peers, [peer_id |-> peer_id(c), conn |-> c, live |-> TRUE])

\* room.peers.pop(peer_id, None)
Pop(peers, id) ==
    [k \in 1..Len(peers) |->
        IF peers[k].peer_id = id THEN [peers[k] EXCEPT !.live = FALSE] ELSE peers[k]]

\* iter(room.peers.items()) / iter(room.peers.values())
Iter(peers) == [pos |-> 0, used |-> Used(peers), len |-> Used(peers)]

NoIter == [pos |-> 0, used |-> 0, len |-> 0]

\* next(it): the item, StopIteration or RuntimeError
IterNext(it, peers) ==
    LET rest == {k \in (it.pos + 1)..Len(peers) : peers[k].live}
    IN  IF it.used # Used(peers) THEN [kind |-> "RuntimeError", it |-> it, slot |-> 0]
        ELSE IF rest = {} THEN [kind |-> "StopIteration", it |-> it, slot |-> 0]
        ELSE IF it.len = 0 THEN [kind |-> "RuntimeError", it |-> it, slot |-> 0]
        ELSE LET k == CHOOSE k \in rest : \A m \in rest : k <= m
             IN  [kind |-> "item", slot |-> k,
                  it |-> [pos |-> k, used |-> it.used, len |-> it.len - 1]]

\* a for loop over the peers that sends to every peer but `skip`, run from the
\* iterator it up to its next send_text: the connection to send on ("send"),
\* the end of the loop ("done"), or the RuntimeError of next() ("error")
RECURSIVE RunLoop(_, _, _)
RunLoop(it, peers, skip) ==
    LET nxt == IterNext(it, peers)
    IN  CASE nxt.kind = "RuntimeError"  -> [kind |-> "error", to |-> 0, it |-> it]
          [] nxt.kind = "StopIteration" -> [kind |-> "done", to |-> 0, it |-> it]
          [] nxt.kind = "item" ->
                IF peers[nxt.slot].peer_id = skip THEN RunLoop(nxt.it, peers, skip)
                ELSE [kind |-> "send", to |-> peers[nxt.slot].conn, it |-> nxt.it]

\* the locals of a sync_websocket coroutine: where it is, the iterator of the
\* loop it is in, and the message the loop sends
Handler(at, it, msg) == [pc |-> at, it |-> it, msg |-> msg]

NoMessage == Message("", "", 0, <<>>, <<>>)

Ended(c) == handlers[c].pc \in {"closed", "crashed"}

\* p.websocket.send_text(msg) inside try / except Exception: pass
Send(box, to, msg) ==
    IF Ended(to) THEN box ELSE [box EXCEPT ![to] = Append(@, msg)]

\* history: a SYNC_PUSH received on connection c, with the room version before
\* and after handle_push's first part and the connections in the room
PushEvent(c, diffs, before, after) ==
    [by |-> peer_id(c), op |-> "handle_push", conn |-> c, diffs |-> diffs,
     before |-> before, after |-> after,
     peers |-> {room.peers[k].conn : k \in {m \in 1..Len(room.peers) : room.peers[m].live}}]

\* a loop of the coroutine c, resumed or begun with the iterator it over the
\* peers `peers`: the next send, the end of the loop (the coroutine goes on at
\* `after`), or the exception (the coroutine goes on at `failed`)
LoopStep(c, it, peers, skip, msg, during, after, failed, box) ==
    LET step == RunLoop(it, peers, skip)
    IN  CASE step.kind = "send" ->
                /\ inbox' = Send(box, step.to, msg)
                /\ handlers' = [handlers EXCEPT ![c] = Handler(during, step.it, msg)]
          [] step.kind = "done" ->
                /\ inbox' = box
                /\ handlers' = [handlers EXCEPT ![c] = Handler(after, NoIter, NoMessage)]
          [] step.kind = "error" ->
                /\ inbox' = box
                /\ handlers' = [handlers EXCEPT ![c] = Handler(failed, NoIter, NoMessage)]

\* the finally block of sync_websocket: remove_peer, then the loop over the
\* remaining peers up to its first send
Finally(c) ==
    LET peers == Pop(room.peers, peer_id(c))
    IN  /\ room' = [room EXCEPT !.peers = peers]
        /\ LoopStep(c, Iter(peers), peers, "", Message("PEER_LEAVE", peer_id(c), 0, <<>>, <<>>),
                    "leave_loop", "closed", "closed", inbox)

\* sync_websocket from room.get_or_create to the first send of the join loop
Connect(c) ==
    /\ entry = "sync_websocket"
    /\ handlers[c].pc = "new"
    /\ LET peers == Insert(room.peers, c)
       IN  /\ room' = [room EXCEPT !.peers = peers]
           /\ LoopStep(c, Iter(peers), peers, peer_id(c),
                       Message("PEER_JOIN", peer_id(c), 0, <<>>, <<>>),
                       "join_loop", "receive", "crashed", inbox)
    /\ UNCHANGED trace

\* the join loop resumed after a send: it is outside the try, an exception of
\* next() ends the coroutine without the finally block
JoinSent(c) ==
    /\ entry = "sync_websocket"
    /\ handlers[c].pc = "join_loop"
    /\ LoopStep(c, handlers[c].it, room.peers, peer_id(c), handlers[c].msg,
                "join_loop", "receive", "crashed", inbox)
    /\ UNCHANGED <<room, trace>>

\* receive_text returns a SYNC_PUSH: handle_push up to the send of the ACK
ReceivePush(c) ==
    /\ entry = "sync_websocket"
    /\ handlers[c].pc = "receive"
    /\ Cardinality({k \in 1..Len(trace) : trace[k].op = "handle_push"}) < MaxPushes
    /\ \E diffs \in DiffLists :
          IF Len(diffs) = 0
          THEN /\ trace' = Append(trace, PushEvent(c, diffs, room.version, room.version))
               /\ UNCHANGED <<room, handlers, inbox>>
          ELSE LET applied == ApplyDiffs(room.state, diffs, 1, <<>>, <<>>)
                   \* the ACK, without its acceptedCount
                   ack == Message("SYNC_ACK", "server", room.version + 1,
                                  <<>>, applied.rejected_paths)
               IN  /\ room' = [room EXCEPT !.state = applied.state,
                                           !.version = @ + 1]
                   /\ inbox' = Send(inbox, c, ack)
                   /\ handlers' = [handlers EXCEPT ![c] =
                          Handler("push_ack", NoIter,
                                  Message("SYNC_PULL", peer_id(c), 0,
                                          applied.accepted_diffs, <<>>))]
                   /\ trace' = Append(trace,
                                      PushEvent(c, diffs, room.version, room.version + 1))

\* handle_push resumed after the ACK: pull_msg, read from the room as it is
\* now, and the broadcast loop up to its first send; an exception of next()
\* leaves handle_push and is caught in sync_websocket, whose finally runs
PushBroadcast(c) ==
    /\ entry = "sync_websocket"
    /\ handlers[c].pc = "push_ack"
    /\ LET accepted_diffs == handlers[c].msg.diffs
           pull_msg == Message("SYNC_PULL", peer_id(c), room.version, accepted_diffs, <<>>)
       IN  IF Len(accepted_diffs) = 0
           THEN /\ handlers' = [handlers EXCEPT ![c] = Handler("receive", NoIter, NoMessage)]
                /\ UNCHANGED <<room, inbox>>
           ELSE IF RunLoop(Iter(room.peers), room.peers, peer_id(c)).kind = "error"
           THEN Finally(c)
           ELSE /\ LoopStep(c, Iter(room.peers), room.peers, peer_id(c), pull_msg,
                            "push_loop", "receive", "receive", inbox)
                /\ UNCHANGED room
    /\ UNCHANGED trace

\* the broadcast loop resumed after a send
PushSent(c) ==
    /\ entry = "sync_websocket"
    /\ handlers[c].pc = "push_loop"
    /\ IF RunLoop(handlers[c].it, room.peers, peer_id(c)).kind = "error"
       THEN Finally(c)
       ELSE /\ LoopStep(c, handlers[c].it, room.peers, peer_id(c), handlers[c].msg,
                        "push_loop", "receive", "receive", inbox)
            /\ UNCHANGED room
    /\ UNCHANGED trace

\* receive_text raises WebSocketDisconnect: the finally block
Disconnect(c) ==
    /\ entry = "sync_websocket"
    /\ handlers[c].pc = "receive"
    /\ Finally(c)
    /\ UNCHANGED trace

\* the leave loop resumed after a send; an exception of next() ends the
\* coroutine
LeaveSent(c) ==
    /\ entry = "sync_websocket"
    /\ handlers[c].pc = "leave_loop"
    /\ LoopStep(c, handlers[c].it, room.peers, "", handlers[c].msg,
                "leave_loop", "closed", "closed", inbox)
    /\ UNCHANGED <<room, trace>>

InitSync ==
    /\ PipelineIdle
    /\ RetryIdle
    /\ room = [peers |-> <<>>, state |-> <<>>, version |-> 0]
    /\ handlers = [c \in Conns |-> Handler("new", NoIter, NoMessage)]
    /\ inbox = [c \in Conns |-> <<>>]
    /\ entry = "sync_websocket"
    /\ pc = "serving"

\* the variables no coroutine of the sync server touches
outside_sync == <<given, heap, circuit, validation, check_fns, all_corrections,
                  iterations, i, pc, entry, pcb_constraints, bom, pipeline_status, row,
                  retry_vars>>

NextSync ==
    \/ \E c \in Conns : Connect(c) /\ UNCHANGED outside_sync
    \/ \E c \in Conns : JoinSent(c) /\ UNCHANGED outside_sync
    \/ \E c \in Conns : ReceivePush(c) /\ UNCHANGED outside_sync
    \/ \E c \in Conns : PushBroadcast(c) /\ UNCHANGED outside_sync
    \/ \E c \in Conns : PushSent(c) /\ UNCHANGED outside_sync
    \/ \E c \in Conns : Disconnect(c) /\ UNCHANGED outside_sync
    \/ \E c \in Conns : LeaveSent(c) /\ UNCHANGED outside_sync

SpecSync == InitSync /\ [][NextSync]_vars

(***************************************************************************)
(* services/circuit_service.py: the operations on one Circuit row.         *)
(* generate_from_description stores the graph of its correction loop;      *)
(* after it, update_graph and validate are called in any order.            *)
(***************************************************************************)
\* how many times CircuitService.update_graph is called
MaxUpdates == 1

\* the graphs generated and the graphs a client sends: no rail, at most one
\* edge, the ground net GND, the battery supply
ServiceGraphs ==
    {g \in Graphs : /\ Len(g.power_rails) = 0
                    /\ Len(g.edges) <= 1
                    /\ g.ground_net = "GND"
                    /\ g.power_source.type = "battery"}

\* CircuitService.update_graph with data.graph = g
ServiceUpdateGraph ==
    /\ entry = "generate_from_description" /\ pc = "idle"
    /\ Cardinality({k \in 1..Len(trace) :
                        trace[k].by = "update_graph" /\ trace[k].op = "validate_circuit"})
           < MaxUpdates
    /\ \E g \in ServiceGraphs :
          /\ heap' = Append(heap, g)
          /\ circuit' = Len(heap) + 1
          /\ validation' = validate_circuit(g, None)
          /\ row' = StoreValidation([row EXCEPT !.graph_data = g, !.version = @ + 1],
                                    g, validation')
    /\ check_fns' = None
    /\ bom' = IF row'.is_valid THEN row'.bom_data ELSE NoBOM
    /\ pcb_constraints' = IF row'.is_valid THEN row'.pcb_constraints_data ELSE NoPCB
    /\ trace' = Append(trace, ValidateEvent("update_graph", circuit', validation'))
                    \o (IF row'.is_valid
                        THEN GenerateEvents("update_graph", "generate_bom",
                                            "generate_pcb_constraints", circuit')
                        ELSE <<>>)
    /\ UNCHANGED <<retry_vars, sync_vars>>
    /\ UNCHANGED <<given, all_corrections, iterations, i, pc, entry, pipeline_status>>

InitService ==
    /\ \E g \in ServiceGraphs : InitWith(g)
    /\ entry = "generate_from_description"
    /\ pc = "validate"

NextService ==
    \/ ServiceLoopValidate
    \/ ServiceLoopCorrect
    \/ ServiceStore
    \/ ServiceValidate
    \/ ServiceUpdateGraph

SpecService == InitService /\ [][NextService]_vars

(***************************************************************************)
(* Properties of validate_circuit (SpecValidate)                           *)
(***************************************************************************)
\* the checks the last validate_circuit call ran
ChecksRun == IF check_fns = None THEN ALL_CHECKS ELSE check_fns

\* what each of them emits on the graph validated, check by check
EmittedBy(k) == RunCheck(ChecksRun[k], heap[circuit])

Emitted == Flatten([k \in 1..Len(ChecksRun) |-> EmittedBy(k)])

IsError(e) == e.severity = "error"

IsNotError(e) == e.severity # "error"

\* C1: validate_circuit returns VALID if and only if the returned errors list
\* is empty; warnings never change the status: a graph whose checks emit
\* warnings only is VALID, one with at least one error-severity issue INVALID.
C1_ValidIffNoErrors ==
    pc = "returned" =>
        /\ validation.status \in {"VALID", "INVALID"}
        /\ (validation.status = "VALID" <=> Len(validation.errors) = 0)
        /\ ((\E k \in 1..Len(Emitted) : IsError(Emitted[k]))
                => validation.status = "INVALID")
        /\ ((\A k \in 1..Len(Emitted) : IsNotError(Emitted[k]))
                => validation.status = "VALID")

\* a result that is VALID although two warnings were emitted
C1_Witness ==
    /\ pc = "returned"
    /\ validation.status = "VALID"
    /\ Len(validation.warnings) >= 2

\* C2: checks_total is the number of checks run, checks_passed the number of
\* those that emitted no error-severity issue (a check with warnings only
\* passes), so 0 <= checks_passed <= checks_total; with zero errors the status
\* is VALID and checks_passed = checks_total.
C2_ChecksCounted ==
    pc = "returned" =>
        /\ validation.checks_total = Len(ChecksRun)
        /\ validation.checks_passed =
               Cardinality({k \in 1..Len(ChecksRun) :
                               \A e \in Range(EmittedBy(k)) : IsNotError(e)})
        /\ 0 <= validation.checks_passed
        /\ validation.checks_passed <= validation.checks_total
        /\ (Len(validation.errors) = 0 =>
               /\ validation.status = "VALID"
               /\ validation.checks_passed = validation.checks_total)

\* two checks run, one failed and the other passed although it emitted a warning
C2_Witness ==
    /\ pc = "returned"
    /\ validation.checks_total = 2
    /\ validation.checks_passed = 1
    /\ \E k \in 1..2 :
          /\ Len(EmittedBy(k)) > 0
          /\ \A e \in Range(EmittedBy(k)) : IsNotError(e)

\* C3: errors and warnings partition the issues the checks run emitted: errors
\* is the emitted error-severity issues and warnings the others, each in check
\* order and, inside a check, in emission order; every emitted issue is in
\* exactly one of the two lists.
C3_IssuesPartitioned ==
    pc = "returned" =>
        /\ validation.errors = SelectSeq(Emitted, IsError)
        /\ validation.warnings = SelectSeq(Emitted, IsNotError)
        /\ Len(validation.errors) + Len(validation.warnings) = Len(Emitted)
        /\ \A e \in Range(validation.errors) : e \notin Range(validation.warnings)

\* errors of two different checks and a warning, all in one result
C3_Witness ==
    /\ pc = "returned"
    /\ Len(validation.warnings) >= 1
    /\ \E j, k \in 1..Len(ChecksRun) :
          /\ j < k
          /\ \E e \in Range(EmittedBy(j)) : IsError(e)
          /\ \E e \in Range(EmittedBy(k)) : IsError(e)
          /\ SelectSeq(EmittedBy(j), IsError) # SelectSeq(EmittedBy(k), IsError)

(***************************************************************************)
(* Properties of correct_circuit (SpecCorrect)                             *)
(***************************************************************************)
\* the positions of the correct_circuit calls in the history
CorrectCalls == {k \in 1..Len(trace) : trace[k].op = "correct_circuit"}

\* C4: correct_circuit never mutates the graph it is given, and no later call
\* on the graph it returned does: no step changes a graph object that exists.
C4_InputNeverMutated ==
    [][\A ref \in DOMAIN heap : heap'[ref] = heap[ref]]_vars

\* a corrected graph that differs from its input was itself corrected, and
\* again the output differs from the input
C4_Witness ==
    \E j, k \in CorrectCalls :
        /\ trace[k].graph = trace[j].result
        /\ heap[trace[j].result] # heap[trace[j].graph]
        /\ heap[trace[k].result] # heap[trace[k].graph]
        /\ heap[1] = given

\* the issues validate_circuit reports on the graph object ref
IssuesOf(ref) == AllIssues(validate_circuit(heap[ref], None))

\* C5: when correct_circuit(G, R) is applied with R = validate_circuit(G), no
\* issue of R whose code has a registered fixer is reported again, with that
\* code for the same node id, by validate_circuit on the corrected graph.
C5_FixedIssuesGone ==
    \A k \in CorrectCalls :
        trace[k].arg = validate_circuit(heap[trace[k].graph], None) =>
            \A issue \in Range(AllIssues(trace[k].arg)) :
                issue.code \in DOMAIN FIXERS =>
                    \A node_id \in Range(issue.node_ids) :
                        ~ \E again \in Range(IssuesOf(trace[k].result)) :
                              /\ again.code = issue.code
                              /\ node_id \in Range(again.node_ids)

(***************************************************************************)
(* Properties of the correction loop (Spec)                                *)
(***************************************************************************)
\* the entry point has returned
Returned ==
    \/ entry = "run_pipeline" /\ pc = "done"
    \/ entry = "generate_from_description" /\ pc = "idle"

\* the graph returned: PipelineResult.circuit, or the row's graph_data
ReturnedGraph == IF entry = "run_pipeline" THEN heap[circuit] ELSE row.graph_data

\* the validation returned: PipelineResult.validation, or the row's validation_errors
ReturnedValidation == IF entry = "run_pipeline" THEN validation ELSE row.validation_errors

\* the positions of the validate_circuit calls the loop's entry point made
LoopValidations ==
    {k \in 1..Len(trace) : trace[k].op = "validate_circuit" /\ trace[k].by = entry}

\* the logs of the correct_circuit calls made, in call order
LogsOfCalls ==
    Flatten([k \in 1..Len(trace) |->
                IF k \in CorrectCalls THEN trace[k].corrections ELSE <<>>])

\* a step of the entry point is defined at its current position
LoopStepDefined ==
    \/ entry = "run_pipeline" /\ pc \in {"validate", "correct", "final", "downstream"}
    \/ entry = "generate_from_description" /\ pc \in {"validate", "correct", "store"}

\* the number of steps the entry point can still take before it returns
Rank ==
    CASE Returned -> 0
      [] pc \in {"downstream", "store"} -> 1
      [] pc = "final" -> 2
      [] pc = "correct" -> 2 * (MAX_CORRECTION_ITERATIONS - i) + 2
      [] pc = "validate" -> 2 * (MAX_CORRECTION_ITERATIONS - i) + 3
      [] OTHER -> 0

BudgetRespected ==
    /\ Cardinality(CorrectCalls) <= MAX_CORRECTION_ITERATIONS
    /\ Cardinality(LoopValidations) <= MAX_CORRECTION_ITERATIONS + 1
    /\ i <= MAX_CORRECTION_ITERATIONS
    /\ (pc \in {"validate", "correct"} => i < MAX_CORRECTION_ITERATIONS)
    /\ Rank >= 0
    /\ (~Returned => LoopStepDefined)
    /\ (entry = "run_pipeline" /\ pc = "done" =>
            /\ 1 <= iterations
            /\ iterations <= MAX_CORRECTION_ITERATIONS)

\* C6: the budget of 3 is a hard limit and the loop terminates: correct_circuit
\* is invoked at most 3 times whether or not VALID is reached, the loop makes
\* at most 3 + 1 validations, the iteration count run_pipeline reports is
\* between 1 and 3, and until the entry point returns a step is defined and
\* every step strictly decreases the number of steps that remain.
C6_BudgetIsHardLimit ==
    /\ []BudgetRespected
    /\ [][~Returned => Rank' < Rank]_vars

\* the budget was used up and the graph is still INVALID
C6_Witness ==
    /\ Returned
    /\ Cardinality(CorrectCalls) = MAX_CORRECTION_ITERATIONS
    /\ ReturnedValidation.status = "INVALID"

\* C7: correct_circuit is invoked only right after a validation of the working
\* graph returned INVALID; after a VALID validation no correction is applied
\* and the graph validated is the one returned; a graph that is VALID at the
\* start is returned as given, with no correction logged and iterations = 1.
C7_StopsAtFirstValid ==
    /\ \A k \in CorrectCalls :
          /\ k > 1
          /\ trace[k - 1].op = "validate_circuit"
          /\ trace[k - 1].graph = trace[k].graph
          /\ trace[k - 1].status = "INVALID"
          /\ trace[k].arg = validate_circuit(heap[trace[k].graph], None)
    /\ \A k \in LoopValidations :
          trace[k].status = "VALID" =>
              /\ \A m \in CorrectCalls : m < k
              /\ (Returned => ReturnedGraph = heap[trace[k].graph])
    /\ (Returned /\ validate_circuit(given, None).status = "VALID" =>
            /\ ReturnedGraph = given
            /\ heap[1] = given
            /\ CorrectCalls = {}
            /\ (entry = "run_pipeline" =>
                    /\ circuit = 1
                    /\ all_corrections = <<>>
                    /\ iterations = 1))

\* run_pipeline returned a graph that was VALID at the start and carries a
\* warning with a registered fixer
C7_Witness ==
    /\ entry = "run_pipeline" /\ pc = "done"
    /\ validate_circuit(given, None).status = "VALID"
    /\ \E w \in Range(validate_circuit(given, None).warnings) : w.code \in DOMAIN FIXERS
    /\ iterations = 1

\* C8: at every exit of the loop the validation returned is validate_circuit of
\* the graph returned, and run_pipeline's corrections log is the concatenation,
\* in call order, of the logs of the correct_circuit calls made; when the
\* budget is exhausted and the graph is still not VALID, the loop returns (it
\* does not raise) the graph of the last correction with its INVALID result.
C8_ExitReturnsLastGraph ==
    Returned =>
        /\ ReturnedValidation = validate_circuit(ReturnedGraph, None)
        /\ (entry = "run_pipeline" => all_corrections = LogsOfCalls)
        /\ (Cardinality(CorrectCalls) = MAX_CORRECTION_ITERATIONS =>
                LET last == CHOOSE k \in CorrectCalls : \A m \in CorrectCalls : m <= k
                IN  /\ ReturnedGraph = heap[trace[last].result]
                    /\ (ReturnedValidation.status # "VALID" =>
                            /\ ReturnedValidation.status = "INVALID"
                            /\ Len(ReturnedValidation.errors) > 0
                            /\ (entry = "run_pipeline" =>
                                    pipeline_status = "completed_with_errors")))

\* run_pipeline returned after three corrections that each logged something,
\* with an INVALID result
C8_Witness ==
    /\ entry = "run_pipeline" /\ pc = "done"
    /\ Cardinality(CorrectCalls) = MAX_CORRECTION_ITERATIONS
    /\ \A k \in CorrectCalls : Len(trace[k].corrections) > 0
    /\ validation.status = "INVALID"

\* the codes of the issues validate_circuit reports on the graph given
GivenCodes == {issue.code : issue \in Range(AllIssues(validate_circuit(given, None)))}

ScenarioF ==
    /\ given.ground_net = "GND"
    /\ GivenCodes = {"E_MISSING_GROUND", "W_MISSING_DECOUPLING"}

\* C9: Scenario F: on a graph with ground net GND whose only issues are
\* E_MISSING_GROUND and W_MISSING_DECOUPLING the loop applies exactly one
\* correction, the validation after it reports zero errors and VALID, the loop
\* exits before the budget is exhausted, and the corrections log is not empty.
C9_ScenarioF ==
    Returned /\ ScenarioF =>
        /\ Cardinality(CorrectCalls) = 1
        /\ \A k \in CorrectCalls :
              /\ Len(trace[k].corrections) > 0
              /\ trace[k + 1].op = "validate_circuit"
              /\ trace[k + 1].graph = trace[k].result
              /\ trace[k + 1].status = "VALID"
        /\ ReturnedValidation.status = "VALID"
        /\ Len(ReturnedValidation.errors) = 0
        /\ i < MAX_CORRECTION_ITERATIONS
        /\ (entry = "run_pipeline" =>
                /\ iterations = 2
                /\ Len(all_corrections) > 0)

\* run_pipeline returned from a Scenario F graph
C9_Witness ==
    /\ entry = "run_pipeline" /\ pc = "done"
    /\ ScenarioF
    /\ Len(all_corrections) > 0

\* the positions of the generate_bom and generate_pcb_constraints calls
GeneratorCalls ==
    {k \in 1..Len(trace) : trace[k].op \in {"generate_bom", "generate_pcb_constraints"}}

\* C10: in every result of run_pipeline, bom and pcb_constraints are present
\* if and only if the final status is VALID, and pipeline_status is "completed"
\* if and only if it is VALID, "completed_with_errors" otherwise; every call of
\* generate_bom / generate_pcb_constraints, by run_pipeline and by
\* CircuitService, is on a graph whose validation has just returned VALID.
C10_DownstreamGated ==
    /\ (entry = "run_pipeline" /\ pc = "done" =>
            /\ (bom # NoBOM <=> validation.status = "VALID")
            /\ (pcb_constraints # NoPCB <=> validation.status = "VALID")
            /\ (pipeline_status = "completed" <=> validation.status = "VALID")
            /\ (validation.status # "VALID" =>
                    /\ pipeline_status = "completed_with_errors"
                    /\ bom = NoBOM
                    /\ pcb_constraints = NoPCB)
            /\ (validation.status = "VALID" =>
                    /\ bom = generate_bom(heap[circuit])
                    /\ pcb_constraints = generate_pcb_constraints(heap[circuit])))
    /\ \A k \in GeneratorCalls :
          \E m \in 1..(k - 1) :
              /\ trace[m].op = "validate_circuit"
              /\ trace[m].status = "VALID"
              /\ trace[m].graph = trace[k].graph
              /\ validate_circuit(heap[trace[k].graph], None).status = "VALID"
              /\ \A j \in (m + 1)..(k - 1) : j \in GeneratorCalls

\* run_pipeline returned with errors after corrections, without BOM
C10_Witness ==
    /\ entry = "run_pipeline" /\ pc = "done"
    /\ validation.status = "INVALID"
    /\ Len(all_corrections) > 0
    /\ bom = NoBOM
    /\ pipeline_status = "completed_with_errors"

(***************************************************************************)
(* Properties of the fixers                                                *)
(***************************************************************************)
\* the ids of the elements of the sequence s are pairwise distinct
DistinctIds(s) == \A j, k \in DOMAIN s : j # k => s[j].id # s[k].id

\* C11: the ids the fixers synthesize are collision-free: when the graph given
\* has pairwise distinct node ids and pairwise distinct edge ids, so has every
\* graph correct_circuit returns, after any number of iterations of the loop.
C11_IdsCollisionFree ==
    DistinctIds(given.nodes) /\ DistinctIds(given.edges) =>
        \A k \in CorrectCalls :
            /\ DistinctIds(heap[trace[k].result].nodes)
            /\ DistinctIds(heap[trace[k].result].edges)

\* the codes a fixer is registered for
RegisteredCodes == {"E_MISSING_GROUND", "W_MISSING_DECOUPLING", "W_MISSING_PULLUP"}

\* the sum of the numbers of the sequence s
RECURSIVE SumSeq(_)
SumSeq(s) == IF s = <<>> THEN 0 ELSE Head(s) + SumSeq(Tail(s))

\* the sum of f over the elements of the sequence s
SumOver(s, f(_)) == SumSeq([n \in DOMAIN s |-> f(s[n])])

\* the numbers of log entries, nodes and edges one issue accounts for
EntriesFor(issue) ==
    CASE issue.code \in {"E_MISSING_GROUND", "W_MISSING_DECOUPLING"} -> Len(issue.node_ids)
      [] issue.code = "W_MISSING_PULLUP" -> 2
      [] OTHER -> 0

NodesFor(issue) ==
    CASE issue.code = "W_MISSING_DECOUPLING" -> Len(issue.node_ids)
      [] issue.code = "W_MISSING_PULLUP" -> 2
      [] OTHER -> 0

EdgesFor(issue) ==
    CASE issue.code = "E_MISSING_GROUND" -> Len(issue.node_ids)
      [] issue.code = "W_MISSING_DECOUPLING" -> 2 * Len(issue.node_ids)
      [] issue.code = "W_MISSING_PULLUP" -> 4
      [] OTHER -> 0

ReportedMissing(v, line) ==
    \E issue \in Range(AllIssues(v)) :
        issue.code \in {"W_MISSING_I2C_PULLUP_" \o line, "W_MISSING_PULLUP"}

\* the pull-up resistors for the I2C line `line` among the nodes
IsPullupFor(node, line) ==
    /\ node.type = "passive"
    /\ Contains(Get(node.properties, "purpose", ""), "pull-up")
    /\ Contains(Get(node.properties, "purpose", ""), line)

\* C13: the pull-up warnings the validator emits are auto-corrected: for each
\* I2C line that the result passed to correct_circuit reports as missing its
\* pull-up (W_MISSING_I2C_PULLUP_SDA, W_MISSING_I2C_PULLUP_SCL, or
\* W_MISSING_PULLUP) the corrected graph has exactly one new pull-up resistor
\* node with two new edges, one of them to that line's pin of the MCU, and a
\* log entry; for a line not reported no resistor is added.
C13_PullupsCorrected ==
    \A k \in CorrectCalls : \A line \in {"SDA", "SCL"} :
        LET input   == heap[trace[k].graph]
            output  == heap[trace[k].result]
            added   == {n \in (Len(input.nodes) + 1)..Len(output.nodes) :
                            IsPullupFor(output.nodes[n], line)}
            edgesOf(n) == {e \in (Len(input.edges) + 1)..Len(output.edges) :
                              output.nodes[n].id \in
                                  {output.edges[e].source_node, output.edges[e].target_node}}
        IN  IF ReportedMissing(trace[k].arg, line)
            THEN /\ Cardinality(added) = 1
                 /\ \A n \in added :
                       /\ Cardinality(edgesOf(n)) = 2
                       /\ \E e \in edgesOf(n) :
                             /\ output.edges[e].target_node = "U1"
                             /\ output.edges[e].target_pin = line
                 /\ \E n \in DOMAIN trace[k].corrections :
                       Contains(trace[k].corrections[n], "pull-up on I2C " \o line)
            ELSE added = {}

\* C14: for each node id listed in an E_MISSING_GROUND issue, the fixer adds
\* exactly one new edge from that node's GND pin whose net_name is the graph's
\* ground_net, whatever ground_net is, and check_ground_continuity no longer
\* reports the node on the corrected graph.
C14_GroundFixUsesGroundNet ==
    \A k \in CorrectCalls :
        LET input  == heap[trace[k].graph]
            output == heap[trace[k].result]
            new    == (Len(input.edges) + 1)..Len(output.edges)
        IN  \A issue \in Range(AllIssues(trace[k].arg)) :
                issue.code = "E_MISSING_GROUND" =>
                    \A node_id \in Range(issue.node_ids) :
                        /\ Cardinality({e \in new :
                                /\ output.edges[e].source_node = node_id
                                /\ output.edges[e].source_pin = "GND"
                                /\ output.edges[e].net_name = output.ground_net}) = 1
                        /\ \A again \in Range(check_ground_continuity(output)) :
                                node_id \notin Range(again.node_ids)

\* the string s ends with suffix
EndsWith(s, suffix) ==
    /\ Len(s) >= Len(suffix)
    /\ SubSeq(s, Len(s) - Len(suffix) + 1, Len(s)) = suffix

\* text is the log entry number j that the fixer of issue writes
EntryOf(text, issue, j) ==
    CASE issue.code = "E_MISSING_GROUND" ->
            text = "Added ground connection for " \o issue.node_ids[j]
      [] issue.code = "W_MISSING_DECOUPLING" ->
            /\ StartsWith(text, "Added 100nF decoupling capacitor C_FIX_")
            /\ EndsWith(text, " for " \o issue.node_ids[j])
      [] issue.code = "W_MISSING_PULLUP" ->
            EndsWith(text, "pull-up on I2C " \o <<"SDA", "SCL">>[j])
      [] OTHER -> FALSE

\* the pairs <<issue number, entry number>> of the entries the issues account
\* for, issue by issue
EntriesInOrder(issues) ==
    Flatten([p \in DOMAIN issues |-> [j \in 1..EntriesFor(issues[p]) |-> <<p, j>>]])

\* C15: correct_circuit processes the errors first, in the order the validator
\* emitted them, and then the warnings, and the corrections log is in that
\* order: its entries are those of the issues of errors + warnings, issue by
\* issue, so every entry of an error precedes every entry of a warning and the
\* entries of two issues of one list are in the order of the issues.
C15_LogInProcessingOrder ==
    \A k \in CorrectCalls :
        LET issues   == trace[k].arg.errors \o trace[k].arg.warnings
            log      == trace[k].corrections
            expected == EntriesInOrder(issues)
        IN  /\ Len(log) = Len(expected)
            /\ \A n \in DOMAIN log :
                  EntryOf(log[n], issues[expected[n][1]], expected[n][2])
            /\ \A m, n \in DOMAIN log :
                  /\ StartsWith(log[m], "Added ground connection")
                  /\ ~StartsWith(log[n], "Added ground connection")
                  => m < n

\* correct_circuit was passed a result with two errors and a warning that all
\* have a fixer, and logged the entries of the three
C15_Witness ==
    \E k \in CorrectCalls :
        /\ Len(trace[k].arg.errors) >= 2
        /\ \A e \in Range(trace[k].arg.errors) : e.code = "E_MISSING_GROUND"
        /\ \E w \in Range(trace[k].arg.warnings) : w.code = "W_MISSING_DECOUPLING"
        /\ Len(trace[k].corrections) >= 4

(***************************************************************************)
(* Properties of the checks (SpecValidate, Spec)                           *)
(***************************************************************************)
\* the ids a rail consumer list or an edge end of the graph refers to that
\* match no node id
UnresolvedIds(graph) ==
    LET ids == {graph.nodes[n].id : n \in DOMAIN graph.nodes}
        consumers == UNION {Range(graph.power_rails[r].consumers) :
                                r \in DOMAIN graph.power_rails}
        ends == UNION {{graph.edges[e].source_node, graph.edges[e].target_node} :
                           e \in DOMAIN graph.edges}
    IN  (consumers \cup ends) \ ids

\* C16: an unresolved node reference never makes validation fail and is
\* reported: validate_circuit with the full check set returns a result whose
\* errors hold, for every rail consumer id and every edge source_node or
\* target_node that matches no node id, an error-severity issue naming the id.
C16_UnresolvedReported ==
    pc = "returned" /\ check_fns = None =>
        /\ validation.status \in {"VALID", "INVALID"}
        /\ \A id \in UnresolvedIds(heap[circuit]) :
              \E issue \in Range(validation.errors) :
                  /\ issue.severity = "error"
                  /\ id \in Range(issue.node_ids)

\* the documented order: voltage, ground, short-circuit, GPIO, dropout,
\* decoupling, pull-ups
DocumentedOrder ==
    << "check_voltage_compatibility", "check_ground_continuity",
       "check_short_circuits", "check_gpio_overcurrent",
       "check_regulator_dropout", "check_decoupling_caps",
       "check_pull_up_resistors" >>

\* the issue codes of each check
CodesOf(check_fn) ==
    CASE check_fn = "check_voltage_compatibility" -> {"E_UNKNOWN_CONSUMER", "E_VOLTAGE_MISMATCH"}
      [] check_fn = "check_ground_continuity"     -> {"E_MISSING_GROUND"}
      [] check_fn = "check_short_circuits"        -> {"E_SHORT_CIRCUIT"}
      [] check_fn = "check_gpio_overcurrent"      -> {"W_GPIO_OVERCURRENT_RISK", "E_GPIO_OVERCURRENT"}
      [] check_fn = "check_regulator_dropout"     -> {"E_DROPOUT_VIOLATION", "E_VIN_BELOW_MIN"}
      [] check_fn = "check_decoupling_caps"       -> {"W_MISSING_DECOUPLING"}
      [] check_fn = "check_pull_up_resistors"     ->
            {"W_MISSING_I2C_PULLUP_SDA", "W_MISSING_I2C_PULLUP_SCL"}

\* C17: without a checks argument validate_circuit runs exactly the seven
\* registered checks in the order voltage, ground, short-circuit, GPIO,
\* dropout, decoupling, pull-ups (checks_total = 7, issues in that order); with
\* an explicit list it runs exactly the checks of the list in the order given,
\* checks_total is the length of the list and no issue of a check outside the
\* list is reported.
C17_ChecksRunInOrder ==
    pc = "returned" =>
        LET run   == IF check_fns = None THEN DocumentedOrder ELSE check_fns
            graph == heap[circuit]
        IN  /\ validation.checks_total = Len(run)
            /\ (check_fns = None => validation.checks_total = 7)
            /\ validation.errors =
                  Flatten([k \in DOMAIN run |-> SelectSeq(RunCheck(run[k], graph), IsError)])
            /\ validation.warnings =
                  Flatten([k \in DOMAIN run |-> SelectSeq(RunCheck(run[k], graph), IsNotError)])
            /\ \A issue \in Range(AllIssues(validation)) :
                  \E k \in DOMAIN run : issue.code \in CodesOf(run[k])

\* the default run reported a voltage error ahead of a ground error
C17_Witness ==
    /\ pc = "returned" /\ check_fns = None
    /\ Len(validation.errors) >= 2
    /\ validation.errors[1].code \in CodesOf("check_voltage_compatibility")
    /\ \E n \in DOMAIN validation.errors : validation.errors[n].code = "E_MISSING_GROUND"

\* the positions of the validate_circuit calls in the history
ValidateCalls == {k \in 1..Len(trace) : trace[k].op = "validate_circuit"}

\* two validate_circuit calls on equal graphs returned equal results
SameGraphSameResult ==
    \A j, k \in ValidateCalls :
        heap[trace[j].graph] = heap[trace[k].graph] => trace[j].arg = trace[k].arg

RanAlone(check_fn) == pc = "returned" /\ check_fns = <<check_fn>>

\* power_source.voltage, an absent key reading as 0
Supply(graph) == IF "voltage" \in DOMAIN graph.power_source
                 THEN graph.power_source.voltage ELSE 0

\* the issues of a regulator node when `low` says which supplies count as
\* below a threshold
DropoutIssuesOf(node, supply, low(_, _)) ==
    LET vout    == IF "vout" \in DOMAIN node.properties THEN node.properties.vout ELSE 0
        dropout == IF "dropout_v" \in DOMAIN node.properties
                   THEN node.properties.dropout_v ELSE 0
        vin_min == IF "vin_min" \in DOMAIN node.properties
                   THEN node.properties.vin_min ELSE 0
    IN  IF node.type # "regulator" THEN <<>>
        ELSE (IF low(supply, vout + dropout)
              THEN <<ValidationError("E_DROPOUT_VIOLATION", "error", <<node.id>>)>>
              ELSE <<>>)
             \o (IF low(supply, vin_min)
                 THEN <<ValidationError("E_VIN_BELOW_MIN", "error", <<node.id>>)>>
                 ELSE <<>>)

DropoutIssues(graph, low(_, _)) ==
    Flatten([n \in DOMAIN graph.nodes |->
                DropoutIssuesOf(graph.nodes[n], Supply(graph), low)])

Below(supply, threshold) == supply < threshold

KnownAndBelow(supply, threshold) == supply > 0 /\ supply < threshold

\* C19 as stated: check_regulator_dropout emits, for every regulator node and
\* every value of power_source.voltage (absent reads as 0), E_DROPOUT_VIOLATION
\* exactly when the supply is below vout + dropout_v and E_VIN_BELOW_MIN
\* exactly when the supply is below vin_min, independently of each other, and
\* nothing for a node that is not a regulator.
C19_DropoutAsStated ==
    RanAlone("check_regulator_dropout") =>
        AllIssues(validation) = DropoutIssues(heap[circuit], Below)

\* C19 as amended: the same, for the supplies that are known: E_DROPOUT_VIOLATION
\* exactly when the supply is above 0 and below vout + dropout_v,
\* E_VIN_BELOW_MIN exactly when the supply is above 0 and below vin_min; with
\* an absent or zero power_source.voltage the check emits nothing.
C19_DropoutWhenSupplyKnown ==
    RanAlone("check_regulator_dropout") =>
        /\ AllIssues(validation) = DropoutIssues(heap[circuit], KnownAndBelow)
        /\ validation.warnings = <<>>
        /\ (Supply(heap[circuit]) = 0 => validation.errors = <<>>)

\* Scenario C: vout 3.3, dropout 1.1, vin_min 4.5 on a 3.7 V supply, both
\* issues for the regulator
C19_Witness ==
    /\ RanAlone("check_regulator_dropout")
    /\ Supply(heap[circuit]) = 37
    /\ \E n \in DOMAIN heap[circuit].nodes :
          /\ heap[circuit].nodes[n].id = "REG1"
          /\ heap[circuit].nodes[n].properties =
                [vout |-> 33, dropout_v |-> 11, vin_min |-> 45]
    /\ \E m \in DOMAIN validation.errors :
          /\ m < Len(validation.errors)
          /\ validation.errors[m] =
                ValidationError("E_DROPOUT_VIOLATION", "error", <<"REG1">>)
          /\ validation.errors[m + 1] =
                ValidationError("E_VIN_BELOW_MIN", "error", <<"REG1">>)

\* the issue of one (rail, consumer) pair
VoltageIssueOf(graph, rail, consumer_id) ==
    IF \A n \in DOMAIN graph.nodes : graph.nodes[n].id # consumer_id
    THEN <<ValidationError("E_UNKNOWN_CONSUMER", "error", <<consumer_id>>)>>
    ELSE LET node  == CHOOSE x \in Range(graph.nodes) : x.id = consumer_id
             v_min == IF "operating_voltage_min" \in DOMAIN node.properties
                      THEN node.properties.operating_voltage_min ELSE 0
             v_max == IF "operating_voltage_max" \in DOMAIN node.properties
                      THEN node.properties.operating_voltage_max ELSE 55
         IN  IF rail.voltage < v_min \/ rail.voltage > v_max
             THEN <<ValidationError("E_VOLTAGE_MISMATCH", "error", <<consumer_id>>)>>
             ELSE <<>>

\* C20: check_voltage_compatibility returns, in rail order and then consumer
\* order, exactly one issue for each faulty (rail, consumer) pair and none for
\* any other: E_UNKNOWN_CONSUMER with node_ids = [consumer id] when no node has
\* that id, otherwise E_VOLTAGE_MISMATCH naming the node exactly when the rail
\* voltage is outside [operating_voltage_min, operating_voltage_max], bounds
\* included, defaults 0 and 5.5.
C20_VoltageIssuesPerPair ==
    RanAlone("check_voltage_compatibility") =>
        LET graph == heap[circuit]
        IN  /\ validation.errors =
                  Flatten([r \in DOMAIN graph.power_rails |->
                      Flatten([c \in DOMAIN graph.power_rails[r].consumers |->
                          VoltageIssueOf(graph, graph.power_rails[r],
                                         graph.power_rails[r].consumers[c])])])
            /\ validation.warnings = <<>>

\* on the 5.5 V rail: the sensor rated 4.5 to 5.5 V passes, the consumer that
\* matches no node and the sensor rated up to 3.6 V are reported, in that order
C20_Witness ==
    /\ RanAlone("check_voltage_compatibility")
    /\ \E r \in DOMAIN heap[circuit].power_rails :
          /\ heap[circuit].power_rails[r].voltage = 55
          /\ heap[circuit].power_rails[r].consumers = <<"S1", "GHOST", "S3">>
    /\ {heap[circuit].nodes[n].id : n \in DOMAIN heap[circuit].nodes} = {"S1", "S3"}
    /\ validation.errors =
          << ValidationError("E_UNKNOWN_CONSUMER", "error", <<"GHOST">>),
             ValidationError("E_VOLTAGE_MISMATCH", "error", <<"S3">>) >>

(***************************************************************************)
(* Properties of the wiring checks (SpecWiring)                            *)
(***************************************************************************)
\* some edge on the ground net or tagged "ground" has the node id at one end
TouchesGround(graph, id) ==
    \E e \in Range(graph.edges) :
        /\ e.net_name = graph.ground_net \/ e.signal_type = "ground"
        /\ e.source_node = id \/ e.target_node = id

\* C21: check_ground_continuity emits exactly one E_MISSING_GROUND per node
\* whose type is mcu, sensor or regulator and which is neither the source nor
\* the target of an edge with net_name = ground_net or signal_type "ground",
\* in node order, and nothing for any other node.
C21_MissingGroundPerUngroundedIC ==
    RanAlone("check_ground_continuity") =>
        LET graph == heap[circuit]
            ungrounded ==
                SelectSeq(graph.nodes, LAMBDA n :
                    /\ n.type \in {"mcu", "sensor", "regulator"}
                    /\ ~TouchesGround(graph, n.id))
        IN  /\ validation.errors =
                  [k \in 1..Len(ungrounded) |->
                      ValidationError("E_MISSING_GROUND", "error", <<ungrounded[k].id>>)]
            /\ validation.warnings = <<>>

\* Scenario A: an MCU with no edges at all, one E_MISSING_GROUND for its id
C21_Witness ==
    /\ RanAlone("check_ground_continuity")
    /\ Len(heap[circuit].nodes) = 1
    /\ heap[circuit].nodes[1].type = "mcu"
    /\ heap[circuit].edges = <<>>
    /\ validation.errors =
          <<ValidationError("E_MISSING_GROUND", "error", <<heap[circuit].nodes[1].id>>)>>

\* one pin is VCC or VOUT and the other GND, whatever the case of the letters
SupplyToGround(pin, other) ==
    /\ Upper(pin) = "VCC" \/ Upper(pin) = "VOUT"
    /\ Upper(other) = "GND"

\* C22: check_short_circuits emits E_SHORT_CIRCUIT for an edge exactly when the
\* edge is not on the ground net, is not tagged signal_type "ground" and joins
\* a VCC or VOUT pin to a GND pin in either direction, pin names compared
\* case-insensitively; one issue per such edge, in edge order, naming the two
\* ends of the edge.
C22_ShortIffSupplyToGroundOffGroundNet ==
    RanAlone("check_short_circuits") =>
        LET graph == heap[circuit]
            shorts ==
                SelectSeq(graph.edges, LAMBDA e :
                    /\ e.net_name # graph.ground_net
                    /\ e.signal_type # "ground"
                    /\ \/ SupplyToGround(e.source_pin, e.target_pin)
                       \/ SupplyToGround(e.target_pin, e.source_pin))
        IN  /\ validation.errors =
                  [k \in 1..Len(shorts) |->
                      ValidationError("E_SHORT_CIRCUIT", "error",
                                      <<shorts[k].source_node, shorts[k].target_node>>)]
            /\ validation.warnings = <<>>

\* Scenario D with its counterpart: a vcc-to-GND edge on net SHORT tagged
\* "power" fires, the VCC-to-GND edge on net SHORT tagged "ground" beside it
\* does not
C22_Witness ==
    /\ RanAlone("check_short_circuits")
    /\ Len(heap[circuit].edges) = 2
    /\ \A k \in 1..2 :
          /\ Upper(heap[circuit].edges[k].source_pin) = "VCC"
          /\ heap[circuit].edges[k].target_pin = "GND"
          /\ heap[circuit].edges[k].net_name = "SHORT"
    /\ heap[circuit].edges[1].signal_type = "power"
    /\ heap[circuit].edges[2].signal_type = "ground"
    /\ validation.errors =
          <<ValidationError("E_SHORT_CIRCUIT", "error",
                            <<heap[circuit].edges[1].source_node,
                              heap[circuit].edges[1].target_node>>)>>

\* the (mcu, target) pairs check_gpio_overcurrent considers, MCU by MCU in node
\* order and edge by edge in edge order: the outgoing "signal" edges of the MCU
\* whose target is a node of the graph
DrivenLoads(graph) ==
    LET Loads(mcu) ==
            LET driven == SelectSeq(graph.edges, LAMBDA e :
                              /\ e.source_node = mcu.id
                              /\ e.signal_type = "signal"
                              /\ \E n \in Range(graph.nodes) : n.id = e.target_node)
            IN  [k \in 1..Len(driven) |->
                    [mcu    |-> mcu,
                     target |-> CHOOSE n \in Range(graph.nodes) :
                                    n.id = driven[k].target_node]]
        mcus == SelectSeq(graph.nodes, LAMBDA n : n.type = "mcu")
    IN  Flatten([m \in 1..Len(mcus) |-> Loads(mcus[m])])

\* the draw of the target is above the MCU's gpio_max_current_mA, 20 mA when
\* the MCU has no such property
Overdrawn(load) ==
    LET limit == IF "gpio_max_current_mA" \in DOMAIN load.mcu.properties
                 THEN load.mcu.properties.gpio_max_current_mA ELSE 20
        draw  == IF "current_draw_mA" \in DOMAIN load.target.properties
                 THEN load.target.properties.current_draw_mA ELSE 0
    IN  draw > limit

\* C23: check_gpio_overcurrent considers, for each mcu node, exactly its
\* outgoing "signal" edges whose target resolves; for each it emits
\* W_GPIO_OVERCURRENT_RISK when the target is an actuator and, independently
\* and whatever the target's type, E_GPIO_OVERCURRENT when the target's
\* current_draw_mA exceeds the MCU's gpio_max_current_mA (20 when absent); a
\* draw equal to the limit is no error.
C23_GpioIssuesPerDrivenLoad ==
    RanAlone("check_gpio_overcurrent") =>
        LET loads    == DrivenLoads(heap[circuit])
            risky    == SelectSeq(loads, LAMBDA l : l.target.type = "actuator")
            overload == SelectSeq(loads, Overdrawn)
        IN  /\ validation.warnings =
                  [k \in 1..Len(risky) |->
                      ValidationError("W_GPIO_OVERCURRENT_RISK", "warning",
                                      <<risky[k].mcu.id, risky[k].target.id>>)]
            /\ validation.errors =
                  [k \in 1..Len(overload) |->
                      ValidationError("E_GPIO_OVERCURRENT", "error",
                                      <<overload[k].mcu.id, overload[k].target.id>>)]

\* an actuator drawing more than the limit of the MCU that drives it: both
\* issues for the one edge
C23_Witness ==
    /\ RanAlone("check_gpio_overcurrent")
    /\ Len(heap[circuit].edges) = 1
    /\ heap[circuit].edges[1].signal_type = "signal"
    /\ \E m, a \in Range(heap[circuit].nodes) :
          /\ m.type = "mcu" /\ a.type = "actuator"
          /\ heap[circuit].edges[1].source_node = m.id
          /\ heap[circuit].edges[1].target_node = a.id
          /\ a.properties.current_draw_mA > 40
          /\ validation.warnings =
                <<ValidationError("W_GPIO_OVERCURRENT_RISK", "warning", <<m.id, a.id>>)>>
          /\ validation.errors =
                <<ValidationError("E_GPIO_OVERCURRENT", "error", <<m.id, a.id>>)>>

\* some passive node whose purpose contains "decoupling", in any case of the
\* letters, shares an edge with the node id
Decoupled(graph, id) ==
    \E cap \in Range(graph.nodes) : \E e \in Range(graph.edges) :
        /\ cap.type = "passive"
        /\ "purpose" \in DOMAIN cap.properties
        /\ Contains(Lower(cap.properties.purpose), "decoupling")
        /\ \/ e.source_node = cap.id /\ e.target_node = id
           \/ e.target_node = cap.id /\ e.source_node = id

\* C24: check_decoupling_caps returns at most one issue: nothing when every
\* IC-type node shares an edge, in either direction, with a passive node whose
\* purpose contains "decoupling" (case-insensitive), and otherwise a single
\* W_MISSING_DECOUPLING whose node_ids are the uncovered IC ids in node order.
C24_OneIssueListingUncoveredICs ==
    RanAlone("check_decoupling_caps") =>
        LET graph == heap[circuit]
            uncovered ==
                SelectSeq(graph.nodes, LAMBDA n :
                    /\ n.type \in {"mcu", "sensor", "regulator"}
                    /\ ~Decoupled(graph, n.id))
            ids == [k \in 1..Len(uncovered) |-> uncovered[k].id]
        IN  /\ validation.errors = <<>>
            /\ Len(validation.warnings) <= 1
            /\ validation.warnings =
                  IF ids = <<>> THEN <<>>
                  ELSE <<ValidationError("W_MISSING_DECOUPLING", "warning", ids)>>

\* two ICs and no decoupling capacitor: one issue listing both in node order
C24_Witness ==
    /\ RanAlone("check_decoupling_caps")
    /\ Len(heap[circuit].nodes) = 2
    /\ \A n \in Range(heap[circuit].nodes) : n.type \in {"mcu", "sensor", "regulator"}
    /\ validation.warnings =
          <<ValidationError("W_MISSING_DECOUPLING", "warning",
                            <<heap[circuit].nodes[1].id, heap[circuit].nodes[2].id>>)>>

\* the graph uses I2C: some edge has a net name starting with I2C or an SDA or
\* SCL pin at either end (letters in any case)
UsesI2C(graph) ==
    \E e \in Range(graph.edges) :
        \/ StartsWith(Upper(e.net_name), "I2C")
        \/ Upper(e.source_pin) \in {"SDA", "SCL"}
        \/ Upper(e.target_pin) \in {"SDA", "SCL"}

\* some pull-up passive (purpose mentions "pull-up" or "pullup") is wired to a
\* pin named line at the other end of one of its edges, or names the line in
\* its purpose
PulledUp(graph, line) ==
    \E r \in Range(graph.nodes) :
        /\ r.type = "passive"
        /\ "purpose" \in DOMAIN r.properties
        /\ \/ Contains(Lower(r.properties.purpose), "pull-up")
           \/ Contains(Lower(r.properties.purpose), "pullup")
        /\ \/ Contains(Lower(r.properties.purpose), Lower(line))
           \/ \E e \in Range(graph.edges) :
                 \/ e.source_node = r.id /\ Upper(e.target_pin) = line
                 \/ e.target_node = r.id /\ Upper(e.source_pin) = line

\* C25: check_pull_up_resistors returns no issue when the graph does not use
\* I2C; otherwise it emits W_MISSING_I2C_PULLUP_SDA exactly when no pull-up
\* passive is connected to an SDA pin or names SDA in its purpose, and,
\* independently, W_MISSING_I2C_PULLUP_SCL likewise for SCL.
C25_PullupsDecidedPerLine ==
    RanAlone("check_pull_up_resistors") =>
        LET graph == heap[circuit]
            Missing(line) ==
                IF UsesI2C(graph) /\ ~PulledUp(graph, line)
                THEN <<ValidationError("W_MISSING_I2C_PULLUP_" \o line, "warning", <<>>)>>
                ELSE <<>>
        IN  /\ validation.errors = <<>>
            /\ validation.warnings = Missing("SDA") \o Missing("SCL")

\* Scenario E: two edges carrying the SDA and SCL pins and no pull-up passive,
\* exactly the two issues
C25_Witness ==
    /\ RanAlone("check_pull_up_resistors")
    /\ Len(heap[circuit].edges) = 2
    /\ heap[circuit].edges[1].target_pin = "SDA"
    /\ heap[circuit].edges[2].target_pin = "SCL"
    /\ \A n \in Range(heap[circuit].nodes) : n.type # "passive"
    /\ validation.warnings =
          << ValidationError("W_MISSING_I2C_PULLUP_SDA", "warning", <<>>),
             ValidationError("W_MISSING_I2C_PULLUP_SCL", "warning", <<>>) >>

(***************************************************************************)
(* Properties of _llm_call_with_retry (SpecRetry)                          *)
(***************************************************************************)
\* the LLM calls made so far, in order
LlmCalls == SelectSeq(trace, LAMBDA e : e.op = "_llm_call")

\* the raw output of the k-th call (a completion)
RawOf(k) ==
    IF LlmCalls[k].response.content = "" THEN "{}" ELSE LlmCalls[k].response.content

\* what parsing and validating the raw output of the k-th call gives
VerdictOf(k) ==
    IF json_loads(RawOf(k)).ok
    THEN Validator(request.phase, json_loads(RawOf(k)).value)
    ELSE json_loads(RawOf(k))

Completed(k) == LlmCalls[k].response.kind = "completion"

\* C26: _llm_call_with_retry makes at most 3 LLM calls; it returns the
\* validated result of the first attempt whose output parses and passes the
\* validator and calls no more; the first attempt is sent the caller's
\* prompts and every later one the retry prompt built from the raw output and
\* the error of the attempt just before; after 3 invalid outputs in a row it
\* raises RuntimeError; an APIError ends the call on the attempt where it
\* occurs and propagates.
C26_BoundedRetryProtocol ==
    entry = "_llm_call_with_retry" =>
        LET n == Len(LlmCalls)
        IN  /\ n <= 3
            /\ n >= 1 => /\ LlmCalls[1].system = request.system_prompt
                         /\ LlmCalls[1].user = request.user_prompt
            /\ \A k \in 2..n :
                  /\ Completed(k - 1) /\ ~VerdictOf(k - 1).ok
                  /\ LlmCalls[k].user =
                        "Your previous output was: " \o RawOf(k - 1)
                            \o " The validation error was: "
                            \o VerdictOf(k - 1).error.message
                  /\ LlmCalls[k].system =
                        retry_prompt(request.phase, "", "").system
            /\ pc = "returned" <=>
                  n >= 1 /\ Completed(n) /\ pc # "validate" /\ VerdictOf(n).ok
            /\ pc = "returned" => outcome = [kind |-> "returned", value |-> VerdictOf(n).value]
            /\ pc = "raised" /\ outcome.exception = "RuntimeError" <=>
                  /\ n = 3 /\ pc # "validate"
                  /\ \A k \in 1..3 : Completed(k) /\ ~VerdictOf(k).ok
            /\ pc = "raised" /\ outcome.exception = "APIError" <=>
                  n >= 1 /\ ~Completed(n)
            /\ pc \in {"returned", "raised"} => ~ENABLED LlmCall

\* a result returned on the third attempt, after an output that is no JSON
\* and one that fails the schema
C26_Witness ==
    /\ entry = "_llm_call_with_retry"
    /\ pc = "returned"
    /\ Len(LlmCalls) = 3
    /\ VerdictOf(1).error.type = "JSONDecodeError"
    /\ VerdictOf(2).error.type = "SchemaValidationError"

(***************************************************************************)
(* Properties of the sync server (SpecSync)                                *)
(***************************************************************************)
Pushes == {k \in 1..Len(trace) : trace[k].op = "handle_push"}

\* the coroutine of connection c is inside handle_push
InPush(c) == handlers[c].pc \in {"push_ack", "push_loop"}

\* handle_push has returned, or was left, for the push of event k
Handled(k) ==
    \/ ~InPush(trace[k].conn)
    \/ \E m \in Pushes : m > k /\ trace[m].conn = trace[k].conn

\* connection d is in room.peers and its coroutine is running
Connected(d) ==
    /\ ~Ended(d)
    /\ \E k \in 1..Len(room.peers) : room.peers[k].live /\ room.peers[k].conn = d

\* connection d was sent a SYNC_PULL of the sender of push k with every diff
\* of that push
Pulled(d, k) ==
    \E m \in 1..Len(inbox[d]) :
        /\ inbox[d][m].type = "SYNC_PULL"
        /\ inbox[d][m].source = trace[k].by
        /\ \A j \in 1..Len(trace[k].diffs) :
              \E n \in 1..Len(inbox[d][m].diffs) : inbox[d][m].diffs[n] = trace[k].diffs[j]

Acks(c) == {m \in 1..Len(inbox[c]) : inbox[c][m].type = "SYNC_ACK"}

\* the state part of C27
PushOutcome ==
    /\ \A c \in Conns :
          /\ Cardinality(Acks(c))
                = Cardinality({k \in Pushes : trace[k].conn = c /\ Len(trace[k].diffs) > 0})
          /\ \A m \in 1..Len(inbox[c]) :
                ~(inbox[c][m].type = "SYNC_PULL" /\ inbox[c][m].source = peer_id(c))
    /\ \A k \in Pushes :
          (Len(trace[k].diffs) > 0 /\ Handled(k)) =>
              \A d \in trace[k].peers \ {trace[k].conn} : Connected(d) => Pulled(d, k)

\* the step part of C27: what the step that receives a push does
PushStep ==
    (Len(trace') = Len(trace) + 1 /\ trace'[Len(trace')].op = "handle_push") =>
        LET push == trace'[Len(trace')]
        IN  IF Len(push.diffs) = 0
            THEN room' = room /\ inbox' = inbox
            ELSE /\ room'.version = room.version + 1
                 /\ Len(inbox'[push.conn]) = Len(inbox[push.conn]) + 1
                 /\ inbox'[push.conn][Len(inbox'[push.conn])].type = "SYNC_ACK"
                 /\ inbox'[push.conn][Len(inbox'[push.conn])].version = room'.version

\* C27: for every SYNC_PUSH with a non-empty diffs list, under any
\* interleaving of the peers' coroutines, the room version goes up by exactly
\* 1, the sender gets one SYNC_ACK with the new version, and every diff of
\* the push is delivered in a SYNC_PULL to every other peer connected to the
\* room and never to the sender; a push with an empty diffs list changes
\* neither state nor version and sends nothing.
C27_PushForwardedToAllPeers == [](entry = "sync_websocket" => PushOutcome) /\ [][PushStep]_vars

(***************************************************************************)
(* Properties of correction and validation together (Spec)                 *)
(***************************************************************************)
\* the errors validate_circuit reports on the graph object ref
ErrorsOf(ref) == validate_circuit(heap[ref], None).errors

Unfixable(e) == e.code \notin DOMAIN FIXERS

\* the correct_circuit calls that were passed the validation of their graph
CorrectCallsOnOwnResult ==
    {k \in CorrectCalls : trace[k].arg = validate_circuit(heap[trace[k].graph], None)}

\* C28: for R = validate_circuit(G), every error validate_circuit reports on
\* correct_circuit(G, R).corrected_graph is already in R.errors with the same
\* code and node ids, and the errors of R that have no registered fixer are
\* reported identically after correction; so an entry point whose first
\* validation has an unfixable error sees INVALID in every validation of its
\* correction loop.
C28_CorrectionKeepsErrors ==
    /\ \A k \in CorrectCallsOnOwnResult :
          /\ Range(ErrorsOf(trace[k].result)) \subseteq Range(trace[k].arg.errors)
          /\ SelectSeq(ErrorsOf(trace[k].result), Unfixable)
                = SelectSeq(trace[k].arg.errors, Unfixable)
    /\ \A first \in LoopValidations :
          (/\ \A k \in LoopValidations : first <= k
           /\ \E e \in Range(trace[first].arg.errors) : Unfixable(e))
          => \A k \in LoopValidations : trace[k].status = "INVALID"

\* the entries of the loop's corrections log that add a decoupling capacitor
\* for the node node_id
DecouplingEntries(node_id) ==
    {k \in 1..Len(LogsOfCalls) :
        /\ StartsWith(LogsOfCalls[k], "Added 100nF decoupling capacitor")
        /\ EndsWith(LogsOfCalls[k], " for " \o node_id)}

\* the capacitors the decoupling fixer has added to the working graph
SynthesizedCaps ==
    {k \in 1..Len(heap[circuit].nodes) : StartsWith(heap[circuit].nodes[k].id, "C_FIX_")}

GivenICs == {k \in 1..Len(given.nodes) : given.nodes[k].type \in IC_TYPES}

\* C29: within one run of the correction loop at most one decoupling
\* capacitor is synthesized per IC node: the corrections log has at most one
\* "Added 100nF decoupling capacitor" entry per node id, and the working graph
\* has no more C_FIX_ capacitors than the given graph has ICs.
C29_OneCapPerIC ==
    entry \in {"run_pipeline", "generate_from_description"} =>
        /\ \A node \in Range(given.nodes) : Cardinality(DecouplingEntries(node.id)) <= 1
        /\ Cardinality(SynthesizedCaps) <= Cardinality(GivenICs)

(***************************************************************************)
(* Properties of the stored Circuit row (SpecService)                      *)
(***************************************************************************)
\* the row has been stored by an operation
Stored == row.graph_data # NoGraph

\* C30: after any sequence of update_graph, validate and
\* generate_from_description on one circuit, is_valid and validation_errors
\* are those of validate_circuit on the stored graph_data, and bom_data and
\* pcb_constraints_data are absent or the ones generated from the stored
\* graph_data; a row whose is_valid is false keeps no BOM or PCB constraints
\* of an earlier graph.
C30_DerivedDataOfStoredGraph ==
    (entry = "generate_from_description" /\ pc = "idle" /\ Stored) =>
        /\ row.validation_errors = validate_circuit(row.graph_data, None)
        /\ row.is_valid = (row.validation_errors.status = "VALID")
        /\ row.bom_data \in {NoBOM, generate_bom(row.graph_data)}
        /\ row.pcb_constraints_data \in {NoPCB, generate_pcb_constraints(row.graph_data)}
====
